---- MODULE Spec2Model ----
(***************************************************************************)
(* Verification model of the zendesk-merge-bot repository.                 *)
(*                                                                         *)
(* Part I   - the ticket merge pass          (src/merge_bot.py, main)      *)
(* Part II  - the escalation-reason propagation pass                       *)
(*                                           (src/copy_ops_reason.py, main)*)
(* Part III - the user merge pass                                          *)
(*                                (src/.github/workflows/merge_bot.py, main)*)
(* Part IV  - the note sync                  (src/script.py, sync_note)    *)
(* Part V   - the request helpers of the passes, called on their own, and  *)
(*            the order-history note         (src/shopify_to_zendesk.py)   *)
(*                                                                         *)
(* Each pass is one run of a script: a batch is fetched, a decision loop   *)
(* runs over it, and the writes go to the helpdesk platform one at a time. *)
(* The platform calls (search, organization lookup, merge, ticket fetch,   *)
(* field write, note write) are the environment: their results are drawn   *)
(* from small sets.                                                        *)
(***************************************************************************)
EXTENDS Integers, Sequences, FiniteSets, TLC

\* ------------------------------------------------------------------------
\* Bounds of the model
\* ------------------------------------------------------------------------

\* Largest batch returned by search_tickets.
MaxTickets == 3
\* Largest batch of the runs with few kinds of ticket (SpecLong).
MaxLongBatch == 5

\* ------------------------------------------------------------------------
\* Text: Python str values the merge pass normalises or compares
\* ------------------------------------------------------------------------

\* A subject is a sequence of one-character strings.  A subject of None (or
\* a missing key) is the empty sequence: `t.get("subject") or ""` maps both
\* to "" before anything reads it.
Whitespace == {" ", "\t", "\n"}

\* str.lower() on the letters the subjects of the model use.
LowerChar(c) ==
    CASE c = "X" -> "x"
      [] c = "Y" -> "y"
      [] OTHER -> c

Lower(s) == [n \in 1..Len(s) |-> LowerChar(s[n])]

RECURSIVE Lstrip(_)
Lstrip(s) ==
    IF s # <<>> /\ Head(s) \in Whitespace THEN Lstrip(Tail(s)) ELSE s

RECURSIVE Rstrip(_)
Rstrip(s) ==
    IF s # <<>> /\ s[Len(s)] \in Whitespace
    THEN Rstrip(SubSeq(s, 1, Len(s) - 1))
    ELSE s

\* str.strip()
Strip(s) == Rstrip(Lstrip(s))

\* str.lower() on the channel and status names of the model (atomic strings).
LowerStr(c) ==
    CASE c = "Email" -> "email"
      [] c = "WhatsApp" -> "whatsapp"
      [] c = "Closed" -> "closed"
      [] c = "Archived" -> "archived"
      [] c = "End-User" -> "end-user"
      [] OTHER -> c

\* ------------------------------------------------------------------------
\* Text: created_at values
\* ------------------------------------------------------------------------

\* A created_at value is a sequence of character codes (ASCII), so that the
\* string order of the fallback sort is the order of the codes.  The values
\* of the model are the timestamps "2024-01-01T0h:00:00" followed by "Z" or
\* by an offset "+0k:00" / "-0k:00", written without the characters every
\* one of them shares: <<h, Z>> or <<h, sign, k>> with h, k digits.  Dropping
\* the shared characters changes neither the lexicographic order of two
\* values nor the instant they parse to.  The other values are texts that
\* datetime.fromisoformat rejects: "" (what x.get("created_at", "") gives
\* for a ticket without the key) and "n/a".
ChZ == 90
ChPlus == 43
ChMinus == 45
ChZero == 48
ChN == 110
Digits == ChZero..(ChZero + 9)

Stamp(h, suffix) == <<ChZero + h>> \o suffix
UtcZ == <<ChZ>>
Plus(k) == <<ChPlus, ChZero + k>>
Minus(k) == <<ChMinus, ChZero + k>>
NoCreatedAt == <<>>
Garbage == <<ChN>>

\* str.replace("Z", "+00:00")
RECURSIVE ReplaceZ(_)
ReplaceZ(s) ==
    IF s = <<>> THEN <<>>
    ELSE IF Head(s) = ChZ THEN Plus(0) \o ReplaceZ(Tail(s))
    ELSE <<Head(s)>> \o ReplaceZ(Tail(s))

\* datetime.fromisoformat on the text ReplaceZ gives: the instant in hours
\* from 2024-01-01T00:00:00+00:00, or a ValueError.  Every value that parses
\* carries an offset, so every parsed datetime is timezone-aware and any two
\* of them compare.
IsoParses(s) ==
    /\ Len(s) = 3
    /\ s[1] \in Digits
    /\ s[2] \in {ChPlus, ChMinus}
    /\ s[3] \in Digits

IsoInstant(s) ==
    IF s[2] = ChPlus THEN (s[1] - ChZero) - (s[3] - ChZero)
    ELSE (s[1] - ChZero) + (s[3] - ChZero)

\* Python's order on str: lexicographic by code point, a proper prefix first.
RECURSIVE StrLess(_, _)
StrLess(a, b) ==
    IF b = <<>> THEN FALSE
    ELSE IF a = <<>> THEN TRUE
    ELSE IF Head(a) # Head(b) THEN Head(a) < Head(b)
    ELSE StrLess(Tail(a), Tail(b))

\* ------------------------------------------------------------------------
\* Part I - the ticket merge pass (src/merge_bot.py)
\* ------------------------------------------------------------------------

ORG_DOMAIN_TO_EXCLUDE == "moc.gov.sa"

excluded_channels == {"whatsapp", "any_channel"}

\* A ticket without a "via" entry (or a via without a channel).
NoVia == "<no via>"

\* get_requester_org_domains: the organization domains of each requester on
\* the platform during the run.
get_requester_org_domains(requester_id) ==
    CASE requester_id = 9 -> {"example.com"}
      [] requester_id = 10 -> {}
      [] requester_id = 11 -> {"moc.gov.sa", "mc.gov.sa"}
      [] OTHER -> {}

VARIABLES
    tickets,           \* the batch search_tickets returned
    pc,                \* where main is: "group", "clusters", "merging", "done"
    i,                 \* index of the next ticket of the grouping loop
    group_keys,        \* the keys of tickets_by_group, in insertion order
    tickets_by_group,  \* tickets_by_group[n]: the list under group_keys[n]
    k,                 \* index of the cluster the second loop is at
    j,                 \* index in the cluster's t_list of the next source
    merge_calls,       \* every merge_tickets call made: source, target, result
    merged_summary,    \* the list main reports at the end
    org_lookups,       \* every get_requester_org_domains call made
    vetoed             \* indexes of the clusters skipped for a closed target

mergeVars == <<tickets, pc, i, group_keys, tickets_by_group, k, j,
               merge_calls, merged_summary, org_lookups, vetoed>>

\* The state of the propagation pass (Part II).
VARIABLES
    field,                \* platform: escalation reason of each ticket, "" when empty
    notes,                \* platform: the internal notes posted on each ticket
    field0,               \* the platform's field values when the run started
    view_tickets,         \* the batch get_tickets_from_view returned
    prop_pc,              \* where main is: "fetching", "fetched", "resolve", "process", "done", "raised"
    prop_i,               \* index of the next ticket of the loop main is in
    parent_mapping,       \* child id -> parent id, 0 where there is no entry
    parent_ticket_cache,  \* parent id -> the ticket fetched, NotCached otherwise
    user_cache,           \* user id -> name, NotCached otherwise
    success_count,
    no_parent_count,
    missing_field_count,
    error_count,
    reads,                \* every platform read of phase two: what, of whom, result
    writes,               \* every platform write issued: kind, ticket, content, result
    resolver_calls        \* the calls of find_parent_ticket_id: ticket id, strategies tried

propVars == <<field, notes, field0, view_tickets, prop_pc, prop_i, parent_mapping,
              parent_ticket_cache, user_cache, success_count, no_parent_count,
              missing_field_count, error_count, reads, writes, resolver_calls>>

\* The runs of the propagation pass the schedule has started.
VARIABLES
    run                   \* 0: the pass is not run, 1: first run, 2: the run after it

againVars == <<run>>

\* The state of the user merge pass (Part III).
VARIABLES
    users,             \* platform: the user records, by id
    solved,            \* platform: requester_id of the tickets solved in the window
    DRY_RUN,
    max_merges,        \* MAX_MERGES of this run
    user_pc,           \* where main is: "preflight", "search", "plan", "execute", ...
    preflight_ok,      \* "pending", then whether the account request gave 200
    requester_counts,  \* requester id -> solved tickets in the window
    requester_ids,
    visited,           \* the requesters the loop of line 219 has been through
    req_by_id,         \* the ids of the users whose record main holds
    planned,           \* the planned merges, in order: [src, tgt]
    plan_i,            \* position of the merge loop in planned[:MAX_MERGES]
    merged_users,      \* the counter merged
    puts,              \* every merge request sent to the platform
    merge_log          \* what the run logs of each merge it takes up

userVars == <<users, solved, DRY_RUN, max_merges, user_pc, preflight_ok, requester_counts,
              requester_ids, visited, req_by_id, planned, plan_i, merged_users,
              puts, merge_log>>

\* The inputs and the result of a call of pick_survivor on its own.
VARIABLES
    candidates,
    picked             \* 0 until pick_survivor returned, then the id it gave

pickVars == <<candidates, picked>>

\* The state of the note sync (Part IV).
VARIABLES
    env,               \* the environment variables of the configuration
    upload_env,        \* UPLOAD_ZENDESK_ATTACHMENTS, "" when it is not set
    sync_ticket_id,    \* the ticket id sync_note is called with
    zd_ticket,         \* helpdesk platform: the ticket with that id
    zd_comments,       \* helpdesk platform: its comments, oldest first
    sync_pc,           \* where sync_note is; "done": returned, "raised": left by an exception
    sync_ticket,       \* ticket
    sync_candidates,   \* candidates
    sync_order_id,     \* order_id
    final_note_parts,
    http,              \* every HTTP request sent, in order
    out,               \* what print wrote
    sync_error,        \* the exception that ended the run, "" for none
    calls              \* the functions called on their own, and what each raised

syncVars == <<env, upload_env, sync_ticket_id, zd_ticket, zd_comments, sync_pc,
              sync_ticket, sync_candidates, sync_order_id, final_note_parts,
              http, out, sync_error, calls>>

\* A call of _request_with_retries of the user merge pass on its own (Part V).
VARIABLES
    RETRY_MAX,
    retry_pc,          \* "loop", then "returned" or "raised"
    attempt,
    received,          \* the responses received, in order: status, Retry-After
    slept,             \* the arguments of sleep, in tenths of a second
    returned           \* the position in received of the response returned, 0 for none

retryVars == <<RETRY_MAX, retry_pc, attempt, received, slept, returned>>

\* A call of zendesk_get_with_retry or zendesk_put_with_retry of the
\* propagation pass on its own (Part V).
VARIABLES
    zd_method,         \* "GET" or "PUT"
    zd_pc,             \* "loop", then "returned" or "raised"
    zd_attempt,        \* attempt, from 0
    zd_received,       \* the outcome of each HTTP call, in order
    zd_slept,          \* the arguments of time.sleep, in seconds
    zd_result          \* what the function returned: "json", "None", "True", "False"

zdVars == <<zd_method, zd_pc, zd_attempt, zd_received, zd_slept, zd_result>>

\* A run of shopify_to_zendesk.py, the order-history note (Part V).
VARIABLES
    oh_env,            \* the environment variables the script reads
    oh_pc,             \* "validate", "ticket", "comments", "requester", "orders", "write", "exit"
    oh_exit,           \* the exit status, -1 while the script runs
    oh_ticket,         \* ticket: channel and requester_id (0 for none)
    oh_comments,       \* comments
    oh_user,           \* end_user_email and end_user_phone of the requester
    oh_orders,         \* orders, each with the phone it was placed with
    oh_pages,          \* the pages of orders fetched
    oh_requests,       \* every HTTP request sent, in order, and whether it succeeded
    oh_note            \* the note of the PUT

historyVars == <<oh_env, oh_pc, oh_exit, oh_ticket, oh_comments, oh_user, oh_orders,
                 oh_pages, oh_requests, oh_note>>

\* The fetch of the view by the propagation pass (Part II).
VARIABLES
    view_pages,        \* platform: the pages of the view, each with its tickets and
                       \* the page next_page names (0: none)
    view_url,          \* url: the page to fetch next, 0 for None
    view_data          \* what zendesk_get_with_retry gave for each page asked

viewVars == <<view_pages, view_url, view_data>>

helperVars == <<retryVars, zdVars, historyVars, viewVars>>

vars == <<mergeVars, propVars, againVars, userVars, pickVars, syncVars, helperVars>>

\* What a step of the merge pass leaves alone, and a step of the propagation pass.
outsideMerge == <<propVars, againVars, userVars, pickVars, syncVars, helperVars>>
outsideProp == <<mergeVars, againVars, userVars, pickVars, syncVars, helperVars>>
outsideUser == <<mergeVars, propVars, againVars, pickVars, syncVars, helperVars>>
outsidePick == <<mergeVars, propVars, againVars, syncVars, helperVars>>
outsideSync == <<mergeVars, propVars, againVars, userVars, pickVars, helperVars>>
outsideRetry == <<mergeVars, propVars, againVars, userVars, pickVars, syncVars, zdVars,
                  historyVars, viewVars>>
outsideZd == <<mergeVars, propVars, againVars, userVars, pickVars, syncVars, retryVars,
               historyVars, viewVars>>
outsideHistory == <<mergeVars, propVars, againVars, userVars, pickVars, syncVars,
                    retryVars, zdVars, viewVars>>
outsideView == <<mergeVars, againVars, userVars, pickVars, syncVars, retryVars, zdVars,
                 historyVars>>

\* channel = t.get("via", {}).get("channel", "unknown").lower()
ChannelOf(t) == LowerStr(IF t.via_channel = NoVia THEN "unknown" ELSE t.via_channel)

\* subject = (t.get("subject") or "").strip().lower()
SubjectOf(t) == Lower(Strip(t.subject))

\* The group key without the side-conversation case.
GroupKeyAlwaysRequester(t) == <<t.requester_id, SubjectOf(t), ChannelOf(t)>>

\* The group key of lines 67-70.
GroupKey(t) ==
    IF ChannelOf(t) = "side_conversation"
    THEN <<SubjectOf(t)>>
    ELSE <<t.requester_id, SubjectOf(t), ChannelOf(t)>>

\* Index of key in the keys of the dict, 0 when it is not a key yet.
KeyIndex(keys, key) ==
    IF \E n \in 1..Len(keys) : keys[n] = key
    THEN CHOOSE n \in 1..Len(keys) : keys[n] = key
    ELSE 0

\* The sort of lines 83-90.  list.sort is stable and ascending.  SortLE is
\* the order of the keys: "iso" compares the parsed instants (the try
\* branch), "str" compares the created_at texts (the except branch).
SortLE(mode, a, b) ==
    IF mode = "iso"
    THEN IsoInstant(ReplaceZ(a.created_at)) <= IsoInstant(ReplaceZ(b.created_at))
    ELSE ~StrLess(b.created_at, a.created_at)

RECURSIVE InsertStable(_, _, _)
InsertStable(mode, s, x) ==
    IF s = <<>> THEN <<x>>
    ELSE IF SortLE(mode, Head(s), x)
         THEN <<Head(s)>> \o InsertStable(mode, Tail(s), x)
         ELSE <<x>> \o s

RECURSIVE StableSort(_, _)
StableSort(mode, s) ==
    IF s = <<>> THEN <<>>
    ELSE InsertStable(mode, StableSort(mode, SubSeq(s, 1, Len(s) - 1)), s[Len(s)])

\* The key function of the try branch raises when one created_at does not
\* parse; list.sort computes every key before it moves an element, so the
\* list reaches the except branch in its original order.
KeysParse(t_list) ==
    \A n \in 1..Len(t_list) : IsoParses(ReplaceZ(t_list[n].created_at))

SortByCreatedAt(t_list) ==
    IF KeysParse(t_list)
    THEN StableSort("iso", t_list)
    ELSE StableSort("str", t_list)

\* The status test without the .lower() of line 93.
TargetVetoedCaseSensitive(target_ticket) ==
    target_ticket.status \in {"closed", "archived"}

\* target_status in ["closed", "archived"], line 93-95
TargetVetoed(target_ticket) ==
    LowerStr(target_ticket.status) \in {"closed", "archived"}

\* The tickets a search can return: position n of the batch holds the ticket
\* with id n and one of the given shapes.
WithId(shape, n) ==
    [id |-> n, via_channel |-> shape.via_channel, requester_id |-> shape.requester_id,
     subject |-> shape.subject, created_at |-> shape.created_at, status |-> shape.status]

\* Lines 39-46: the state of main when the grouping loop starts.
MergeStart(batch) ==
    /\ tickets = batch
    /\ pc = "group"
    /\ i = 1
    /\ group_keys = <<>>
    /\ tickets_by_group = <<>>
    /\ k = 0
    /\ j = 0
    /\ merge_calls = <<>>
    /\ merged_summary = <<>>
    /\ org_lookups = <<>>
    /\ vetoed = {}

\* The channel test without the .lower() of line 49.
ChannelExcludedCaseSensitive(t) ==
    (IF t.via_channel = NoVia THEN "unknown" ELSE t.via_channel) \in excluded_channels

\* Lines 49-52: the channel test.
ChannelExcluded(t) == ChannelOf(t) \in excluded_channels

\* The organization test left out.
OrgExcludedNever(t) == FALSE

\* Lines 54-62: the organization test.
OrgExcluded(t) ==
    ORG_DOMAIN_TO_EXCLUDE \in get_requester_org_domains(t.requester_id)

\* Lines 48-73: one iteration of the grouping loop.
GroupTicket ==
    /\ pc = "group"
    /\ i <= Len(tickets)
    /\ LET t == tickets[i]
           key == GroupKey(t)
           n == KeyIndex(group_keys, key)
       IN  IF ChannelExcluded(t)
           THEN UNCHANGED <<group_keys, tickets_by_group, org_lookups>>
           ELSE /\ org_lookups' = Append(org_lookups, t.requester_id)
                /\ IF OrgExcluded(t)
                   THEN UNCHANGED <<group_keys, tickets_by_group>>
                   ELSE IF n = 0
                        THEN /\ group_keys' = Append(group_keys, key)
                             /\ tickets_by_group' = Append(tickets_by_group, <<t>>)
                        ELSE /\ group_keys' = group_keys
                             /\ tickets_by_group' =
                                    [tickets_by_group EXCEPT ![n] = Append(@, t)]
    /\ i' = i + 1
    /\ UNCHANGED <<tickets, pc, k, j, merge_calls, merged_summary, vetoed>>
    /\ UNCHANGED outsideMerge

\* Line 75: the grouping loop is over, the loop over the groups starts.
StartClusters ==
    /\ pc = "group"
    /\ i > Len(tickets)
    /\ pc' = "clusters"
    /\ k' = 1
    /\ UNCHANGED <<tickets, i, group_keys, tickets_by_group, j, merge_calls,
                   merged_summary, org_lookups, vetoed>>
    /\ UNCHANGED outsideMerge

\* The merge loop over the whole of t_list, target included.
SourcePositionsAll(t_list) == 1..Len(t_list)

\* Line 117, t_list[1:]: the positions in t_list of the tickets merged.
SourcePositions(t_list) == 2..Len(t_list)

FirstOf(positions) == CHOOSE m \in positions : \A o \in positions : m <= o

\* Lines 75-115 and 135-145: one group is taken up.  A group of one ticket
\* is only logged.  A larger one is sorted in place; a closed or archived
\* target skips the group, any other target starts the merge loop.
ProcessCluster ==
    /\ pc = "clusters"
    /\ k <= Len(group_keys)
    /\ LET t_list == tickets_by_group[k]
           sorted == SortByCreatedAt(t_list)
       IN  IF Len(t_list) > 1
           THEN /\ tickets_by_group' = [tickets_by_group EXCEPT ![k] = sorted]
                /\ IF TargetVetoed(sorted[1])
                   THEN /\ vetoed' = vetoed \cup {k}
                        /\ k' = k + 1
                        /\ UNCHANGED <<pc, j>>
                   ELSE /\ pc' = "merging"
                        /\ j' = FirstOf(SourcePositions(sorted))
                        /\ UNCHANGED <<k, vetoed>>
           ELSE /\ k' = k + 1
                /\ UNCHANGED <<tickets_by_group, pc, j, vetoed>>
    /\ UNCHANGED <<tickets, i, group_keys, merge_calls, merged_summary, org_lookups>>
    /\ UNCHANGED outsideMerge

\* The merge loop left at the first failure, and the run with it.
NextAfterMergeStopOnFailure(merged, t_list) ==
    IF ~merged
    THEN [pc |-> "clusters", k |-> Len(group_keys) + 1, j |-> 0]
    ELSE IF j < Len(t_list)
         THEN [pc |-> pc, k |-> k, j |-> j + 1]
         ELSE [pc |-> "clusters", k |-> k + 1, j |-> 0]

\* Lines 117-134, the control flow of the merge loop: after a call, whatever
\* it returned, the next ticket of t_list is taken, and after the last one the
\* next group.
NextAfterMerge(merged, t_list) ==
    IF j < Len(t_list)
    THEN [pc |-> pc, k |-> k, j |-> j + 1]
    ELSE [pc |-> "clusters", k |-> k + 1, j |-> 0]

\* The arguments of merge_tickets in the wrong order.
MergeCallSwapped(t_list, merged) ==
    [source |-> t_list[1].id, target |-> t_list[j].id, ok |-> merged]

\* Line 118: merge_tickets(ticket["id"], target_ticket["id"]) and its result.
MergeCall(t_list, merged) ==
    [source |-> t_list[j].id, target |-> t_list[1].id, ok |-> merged]

\* Lines 117-134: one iteration of the merge loop; merged is what
\* merge_tickets returned.
MergeTicket ==
    /\ pc = "merging"
    /\ \E merged \in BOOLEAN :
        LET t_list == tickets_by_group[k]
            target_ticket == t_list[1]
            ticket == t_list[j]
        IN  /\ merge_calls' = Append(merge_calls, MergeCall(t_list, merged))
            /\ merged_summary' =
                   IF merged
                   THEN Append(merged_summary,
                            [from |-> ticket.id, to |-> target_ticket.id,
                             channel |-> IF ticket.via_channel = NoVia
                                         THEN "unknown" ELSE ticket.via_channel])
                   ELSE merged_summary
            /\ pc' = NextAfterMerge(merged, t_list).pc
            /\ k' = NextAfterMerge(merged, t_list).k
            /\ j' = NextAfterMerge(merged, t_list).j
    /\ UNCHANGED <<tickets, i, group_keys, tickets_by_group, org_lookups, vetoed>>
    /\ UNCHANGED outsideMerge

\* Lines 147-159: every group was taken up; the summary is logged.
MergeSummary ==
    /\ pc = "clusters"
    /\ k > Len(group_keys)
    /\ pc' = "done"
    /\ UNCHANGED <<tickets, i, group_keys, tickets_by_group, k, j, merge_calls,
                   merged_summary, org_lookups, vetoed>>
    /\ UNCHANGED outsideMerge

MergeNext == GroupTicket \/ StartClusters \/ ProcessCluster \/ MergeTicket \/ MergeSummary

\* ------------------------------------------------------------------------
\* Part II - the propagation pass (src/copy_ops_reason.py)
\* ------------------------------------------------------------------------

\* Tickets on the platform: ids 1..NumTickets.
NumTickets == 3
\* Largest batch the view returns.
MaxView == 2

PropIds == 1..NumTickets

\* The assignee of each ticket (0: unassigned) and its requester.
AssigneeOf(id) == IF id = 1 THEN 0 ELSE 70 + (id % 2)
RequesterOf(id) == IF id = 2 THEN 71 ELSE 80

\* The text used for a failed lookup without the id of the user.
IdTextBlank(user_id) == <<"ID:", 0>>

\* The name get_user gives, and the text main uses when the lookup failed.
UserName(user_id) == <<"name", user_id>>
IdText(user_id) == <<"ID:", user_id>>

\* What the resolver reads of a ticket: the source ticket its via descriptor
\* names, the one the creation audit names, and the ticket whose side
\* conversation targets it (0: none).
LinkShapes ==
    {[via_source |-> 0, audit_source |-> 0, reverse_source |-> 0]}
    \cup {[via_source |-> x, audit_source |-> 0, reverse_source |-> 0] : x \in PropIds}
    \cup {[via_source |-> 0, audit_source |-> NumTickets, reverse_source |-> 0],
          [via_source |-> 0, audit_source |-> 0, reverse_source |-> 1]}

ViewTicket(id, link) ==
    [id |-> id, requester_id |-> RequesterOf(id), via_source |-> link.via_source,
     audit_source |-> link.audit_source, reverse_source |-> link.reverse_source]

\* The resolver that takes the via source as it is, its own id included.
find_parent_unguarded(ticket) ==
    IF ticket.via_source # 0 THEN ticket.via_source
    ELSE IF ticket.audit_source # 0 THEN ticket.audit_source
    ELSE ticket.reverse_source

\* The resolver that asks the reverse search first.
find_parent_reverse_first(ticket) ==
    LET hit(x) == x # 0 /\ x # ticket.id
    IN  IF hit(ticket.reverse_source) THEN ticket.reverse_source
        ELSE IF hit(ticket.via_source) THEN ticket.via_source
        ELSE IF hit(ticket.audit_source) THEN ticket.audit_source
        ELSE 0

\* find_parent_ticket_id: direct via link, then the audit trail, then the
\* reverse search; a candidate that is the ticket itself is a miss.
find_parent_ticket_id(ticket) ==
    LET hit(x) == x # 0 /\ x # ticket.id
    IN  IF hit(ticket.via_source) THEN ticket.via_source
        ELSE IF hit(ticket.audit_source) THEN ticket.audit_source
        ELSE IF hit(ticket.reverse_source) THEN ticket.reverse_source
        ELSE 0

\* The strategies find_parent_ticket_id goes through for the ticket, in the
\* order in which it tries them, up to the first that succeeds.
StrategiesTried(ticket) ==
    LET hit(x) == x # 0 /\ x # ticket.id
    IN  IF hit(ticket.via_source) THEN <<"via">>
        ELSE IF hit(ticket.audit_source) THEN <<"via", "audit">>
        ELSE <<"via", "audit", "reverse">>

\* dict.get(key), 0 for None
DictGet(dict, key) == IF key \in DOMAIN dict THEN dict[key] ELSE 0

EmptyDict == [x \in {} |-> 0]

\* A page of the view: its tickets and the page its next_page names.
ViewPage(page_tickets, next_page) == [tickets |-> page_tickets, next_page |-> next_page]

\* Lines 231-234: the state of main when it calls get_tickets_from_view.
ViewStart(platform_field, pages) ==
    /\ field = platform_field
    /\ field0 = platform_field
    /\ notes = [id \in PropIds |-> <<>>]
    /\ view_pages = pages
    /\ view_url = 1
    /\ view_data = <<>>
    /\ view_tickets = <<>>
    /\ prop_pc = "fetching"
    /\ run = 1
    /\ prop_i = 1
    /\ parent_mapping = EmptyDict
    /\ parent_ticket_cache = EmptyDict
    /\ user_cache = EmptyDict
    /\ success_count = 0
    /\ no_parent_count = 0
    /\ missing_field_count = 0
    /\ error_count = 0
    /\ reads = <<>>
    /\ writes = <<>>
    /\ resolver_calls = <<>>

\* What zendesk_get_with_retry gives for a page: its JSON, None after the
\* last failed attempt, or the ValueError of a Retry-After that is not a
\* number, which nothing up to main takes.
PageOutcomes == {"json", "None", "raised"}

\* Line 102: tickets.extend(...), and the same with the page put in front.
ExtendInFront(batch, page_tickets) == page_tickets \o batch
Extend(batch, page_tickets) == batch \o page_tickets

\* Lines 95-104: one turn of the loop of get_tickets_from_view, with the
\* return when the loop ends.
get_tickets_from_view ==
    /\ prop_pc = "fetching"
    /\ \E data \in PageOutcomes :
        /\ view_data' = Append(view_data, [page |-> view_url, data |-> data])
        /\ IF data = "raised"
           THEN prop_pc' = "raised" /\ UNCHANGED <<view_tickets, view_url>>
           ELSE IF data = "None"
           THEN prop_pc' = "fetched" /\ UNCHANGED <<view_tickets, view_url>>
           ELSE /\ view_tickets' = Extend(view_tickets, view_pages[view_url].tickets)
                /\ view_url' = view_pages[view_url].next_page
                /\ prop_pc' = IF view_pages[view_url].next_page = 0
                              THEN "fetched"
                              ELSE "fetching"
    /\ UNCHANGED <<field, notes, field0, prop_i, parent_mapping,
                   parent_ticket_cache, user_cache, success_count, no_parent_count,
                   missing_field_count, error_count, reads, writes,
                   resolver_calls, view_pages>>
    /\ UNCHANGED outsideView

\* Lines 231-235: the state of main after get_tickets_from_view returned.
PropStart(platform_field, batch) ==
    /\ field = platform_field
    /\ field0 = platform_field
    /\ notes = [id \in PropIds |-> <<>>]
    /\ view_tickets = batch
    /\ prop_pc = "fetched"
    /\ run = 1
    /\ prop_i = 1
    /\ parent_mapping = EmptyDict
    /\ parent_ticket_cache = EmptyDict
    /\ user_cache = EmptyDict
    /\ success_count = 0
    /\ no_parent_count = 0
    /\ missing_field_count = 0
    /\ error_count = 0
    /\ reads = <<>>
    /\ writes = <<>>
    /\ resolver_calls = <<>>

\* Lines 237-243: an empty batch ends the run.
CheckBatch ==
    /\ prop_pc = "fetched"
    /\ prop_pc' = IF view_tickets = <<>> THEN "done" ELSE "resolve"
    /\ UNCHANGED <<field, notes, field0, view_tickets, prop_i, parent_mapping,
                   parent_ticket_cache, user_cache, success_count, no_parent_count,
                   missing_field_count, error_count, reads, writes,
                   resolver_calls>>
    /\ UNCHANGED outsideProp

\* Lines 245-252: one iteration of the resolution loop.
ResolveParent ==
    /\ prop_pc = "resolve"
    /\ prop_i <= Len(view_tickets)
    /\ LET ticket == view_tickets[prop_i]
           parent_id == find_parent_ticket_id(ticket)
       IN  parent_mapping' =
               IF parent_id # 0
               THEN [c \in DOMAIN parent_mapping \cup {ticket.id} |->
                        IF c = ticket.id THEN parent_id ELSE parent_mapping[c]]
               ELSE parent_mapping
    /\ resolver_calls' = Append(resolver_calls,
                                 [id |-> view_tickets[prop_i].id,
                                  tried |-> StrategiesTried(view_tickets[prop_i])])
    /\ prop_i' = prop_i + 1
    /\ UNCHANGED <<field, notes, field0, view_tickets, prop_pc, parent_ticket_cache,
                   user_cache, success_count, no_parent_count, missing_field_count,
                   error_count, reads, writes>>
    /\ UNCHANGED outsideProp

\* Lines 254-267: the resolution loop is over; without any relationship the
\* run ends, otherwise the processing loop starts.
EndResolve ==
    /\ prop_pc = "resolve"
    /\ prop_i > Len(view_tickets)
    /\ prop_pc' = IF DOMAIN parent_mapping = {} THEN "done" ELSE "process"
    /\ prop_i' = 1
    /\ UNCHANGED <<field, notes, field0, view_tickets, parent_mapping,
                   parent_ticket_cache, user_cache, success_count, no_parent_count,
                   missing_field_count, error_count, reads, writes,
                   resolver_calls>>
    /\ UNCHANGED outsideProp

\* dict[key] = val
DictPut(dict, key, val) ==
    [c \in DOMAIN dict \cup {key} |-> IF c = key THEN val ELSE dict[c]]

\* get_ticket on the platform as it is now: the ticket with its
\* escalation-reason field (get_ticket_field reads it from this copy).
get_ticket(ticket_id) ==
    [id |-> ticket_id, value |-> field[ticket_id], assignee_id |-> AssigneeOf(ticket_id)]

NoBody == [parent |-> 0, assignee |-> <<>>, requester |-> <<>>]

\* The note posted as a public comment.
add_public_note(ticket_id, body, ok) ==
    [kind |-> "note", ticket |-> ticket_id, value |-> "", body |-> body,
     public |-> TRUE, ok |-> ok]

\* add_internal_note: the comment it puts on the ticket, "public": False,
\* and what zendesk_put_with_retry returned.
add_internal_note(ticket_id, body, ok) ==
    [kind |-> "note", ticket |-> ticket_id, value |-> "", body |-> body,
     public |-> FALSE, ok |-> ok]

\* set_ticket_field: the custom field it puts on the ticket (no comment),
\* and what zendesk_put_with_retry returned.
set_ticket_field(ticket_id, value, ok) ==
    [kind |-> "field", ticket |-> ticket_id, value |-> value, body |-> NoBody,
     public |-> FALSE, ok |-> ok]

\* The run left at the first ticket that failed.
AfterItemStopOnFailure(failed) ==
    IF failed
    THEN [pc |-> "done", i |-> prop_i]
    ELSE [pc |-> prop_pc, i |-> prop_i + 1]

\* Lines 269-345, the control flow of the processing loop: a continue, the
\* end of the try block and the except clause all lead to the next ticket
\* of the batch.
AfterItem(failed) == [pc |-> prop_pc, i |-> prop_i + 1]

\* The ticket the processing loop is at, and its parent in the mapping.
Child == view_tickets[prop_i]
ParentOfChild == DictGet(parent_mapping, Child.id)

Processing == prop_pc = "process" /\ prop_i <= Len(view_tickets)

\* The parent resolved once more for the ticket being processed.
CallsOfItemAgain ==
    <<[id |-> view_tickets[prop_i].id, tried |-> StrategiesTried(view_tickets[prop_i])]>>

\* Lines 269-345: the calls of find_parent_ticket_id in one iteration of the
\* processing loop; the parent comes from parent_mapping.get (line 276).
CallsOfItem == <<>>

\* Lines 282-291: the parent ticket of this iteration, from the cache or
\* fetched now, and what the lookup leaves in the cache and in the reads.
ParentTicket ==
    IF ParentOfChild \in DOMAIN parent_ticket_cache
    THEN parent_ticket_cache[ParentOfChild]
    ELSE get_ticket(ParentOfChild)

CacheAfterFetch ==
    IF ParentOfChild \in DOMAIN parent_ticket_cache
    THEN parent_ticket_cache
    ELSE DictPut(parent_ticket_cache, ParentOfChild, get_ticket(ParentOfChild))

ReadsAfterFetch ==
    IF ParentOfChild \in DOMAIN parent_ticket_cache
    THEN reads
    ELSE Append(reads, [what |-> "ticket", id |-> ParentOfChild, outcome |-> "ok",
                        value |-> field[ParentOfChild]])

\* Lines 276-280: no entry in the mapping.
ProcessNoParent ==
    /\ Processing
    /\ ParentOfChild = 0
    /\ no_parent_count' = no_parent_count + 1
    /\ prop_pc' = AfterItem(FALSE).pc
    /\ prop_i' = AfterItem(FALSE).i
    /\ UNCHANGED <<field, notes, field0, view_tickets, parent_mapping,
                   parent_ticket_cache, user_cache, success_count,
                   missing_field_count, error_count, reads, writes>>
    /\ resolver_calls' = resolver_calls \o CallsOfItem
    /\ UNCHANGED outsideProp

\* Lines 283-288 and 343-345: the parent is not cached and get_ticket gave
\* None, or the fetch raised; either way the ticket counts as an error.
ProcessFetchFailed ==
    /\ Processing
    /\ ParentOfChild # 0
    /\ ParentOfChild \notin DOMAIN parent_ticket_cache
    /\ \E outcome \in {"none", "raised"} :
           reads' = Append(reads, [what |-> "ticket", id |-> ParentOfChild,
                                   outcome |-> outcome, value |-> ""])
    /\ error_count' = error_count + 1
    /\ prop_pc' = AfterItem(TRUE).pc
    /\ prop_i' = AfterItem(TRUE).i
    /\ UNCHANGED <<field, notes, field0, view_tickets, parent_mapping,
                   parent_ticket_cache, user_cache, success_count, no_parent_count,
                   missing_field_count, writes>>
    /\ resolver_calls' = resolver_calls \o CallsOfItem
    /\ UNCHANGED outsideProp

\* Lines 294-303: the parent has a value; it is written on the child.
ProcessCopy ==
    /\ Processing
    /\ ParentOfChild # 0
    /\ ParentTicket.value # ""
    /\ \E ok \in BOOLEAN :
        /\ writes' = Append(writes,
                             set_ticket_field(Child.id, ParentTicket.value, ok))
        /\ field' = IF ok THEN [field EXCEPT ![Child.id] = ParentTicket.value] ELSE field
        /\ success_count' = IF ok THEN success_count + 1 ELSE success_count
        /\ error_count' = IF ok THEN error_count ELSE error_count + 1
        /\ prop_pc' = AfterItem(~ok).pc
        /\ prop_i' = AfterItem(~ok).i
    /\ parent_ticket_cache' = CacheAfterFetch
    /\ reads' = ReadsAfterFetch
    /\ UNCHANGED <<notes, field0, view_tickets, parent_mapping, user_cache,
                   no_parent_count, missing_field_count>>
    /\ resolver_calls' = resolver_calls \o CallsOfItem
    /\ UNCHANGED outsideProp

\* Lines 304-341: the parent has no value; its assignee and the child's
\* requester are looked up (through user_cache) and a note is posted on the
\* parent.
ProcessNote ==
    /\ Processing
    /\ ParentOfChild # 0
    /\ ParentTicket.value = ""
    /\ \E assignee_ok, requester_ok, ok \in BOOLEAN :
        LET assignee_id == ParentTicket.assignee_id
            ask_assignee == assignee_id # 0 /\ assignee_id \notin DOMAIN user_cache
            assignee_name ==
                IF assignee_id = 0 THEN <<"Unassigned", 0>>
                ELSE IF assignee_id \in DOMAIN user_cache THEN user_cache[assignee_id]
                ELSE IF assignee_ok THEN UserName(assignee_id) ELSE IdText(assignee_id)
            cache1 == IF ask_assignee
                      THEN DictPut(user_cache, assignee_id, assignee_name)
                      ELSE user_cache
            reads1 == IF ask_assignee
                      THEN Append(ReadsAfterFetch,
                               [what |-> "user", id |-> assignee_id,
                                outcome |-> IF assignee_ok THEN "ok" ELSE "none",
                                value |-> ""])
                      ELSE ReadsAfterFetch
            requester_id == Child.requester_id
            ask_requester == requester_id \notin DOMAIN cache1
            requester_name ==
                IF requester_id \in DOMAIN cache1 THEN cache1[requester_id]
                ELSE IF requester_ok THEN UserName(requester_id) ELSE IdText(requester_id)
            note_body == [parent |-> ParentOfChild, assignee |-> assignee_name,
                          requester |-> requester_name]
        IN  /\ user_cache' = IF ask_requester
                             THEN DictPut(cache1, requester_id, requester_name)
                             ELSE cache1
            /\ reads' = IF ask_requester
                        THEN Append(reads1,
                                 [what |-> "user", id |-> requester_id,
                                  outcome |-> IF requester_ok THEN "ok" ELSE "none",
                                  value |-> ""])
                        ELSE reads1
            /\ writes' = Append(writes,
                                 add_internal_note(ParentOfChild, note_body, ok))
            /\ notes' = IF ok
                        THEN [notes EXCEPT ![ParentOfChild] = Append(@, note_body)]
                        ELSE notes
            /\ missing_field_count' =
                   IF ok THEN missing_field_count + 1 ELSE missing_field_count
            /\ error_count' = IF ok THEN error_count ELSE error_count + 1
            /\ prop_pc' = AfterItem(~ok).pc
            /\ prop_i' = AfterItem(~ok).i
    /\ parent_ticket_cache' = CacheAfterFetch
    /\ UNCHANGED <<field, field0, view_tickets, parent_mapping,
                   success_count, no_parent_count>>
    /\ resolver_calls' = resolver_calls \o CallsOfItem
    /\ UNCHANGED outsideProp

\* Lines 347-358: every ticket was processed; the summary is logged.
PropSummary ==
    /\ prop_pc = "process"
    /\ prop_i > Len(view_tickets)
    /\ prop_pc' = "done"
    /\ UNCHANGED <<field, notes, field0, view_tickets, prop_i, parent_mapping,
                   parent_ticket_cache, user_cache, success_count, no_parent_count,
                   missing_field_count, error_count, reads, writes,
                   resolver_calls>>
    /\ UNCHANGED outsideProp

\* The schedule starts main once more after a finished first run, nothing
\* else having touched the platform: get_tickets_from_view(VIEW_ID) gives
\* the tickets of the first batch whose escalation reason is still empty,
\* and the dictionaries and counters of main start afresh (lines 231-267).
RunAgain ==
    /\ prop_pc = "done"
    /\ run = 1
    /\ run' = 2
    /\ view_tickets' = SelectSeq(view_tickets, LAMBDA t : field[t.id] = "")
    /\ field0' = field
    /\ prop_pc' = "fetched"
    /\ prop_i' = 1
    /\ parent_mapping' = EmptyDict
    /\ parent_ticket_cache' = EmptyDict
    /\ user_cache' = EmptyDict
    /\ success_count' = 0
    /\ no_parent_count' = 0
    /\ missing_field_count' = 0
    /\ error_count' = 0
    /\ reads' = <<>>
    /\ writes' = <<>>
    /\ resolver_calls' = <<>>
    /\ UNCHANGED <<field, notes>>
    /\ UNCHANGED <<mergeVars, userVars, pickVars, syncVars, helperVars>>

PropNext ==
    \/ CheckBatch \/ ResolveParent \/ EndResolve \/ ProcessNoParent
    \/ ProcessFetchFailed \/ ProcessCopy \/ ProcessNote \/ PropSummary

AgainNext == PropNext \/ RunAgain
ViewNext == get_tickets_from_view \/ PropNext

\* ------------------------------------------------------------------------
\* Part III - the user merge pass (src/.github/workflows/merge_bot.py)
\* ------------------------------------------------------------------------

\* Users on the platform: ids 1..NumUsers.
NumUsers == 3
\* Most tickets solved in the window.
MaxSolved == 2
\* The cap on the merges of a run (the environment variable MAX_MERGES).
MAX_MERGES == 1
\* Longest list of candidates pick_survivor is called on by itself.
MaxCandidates == 3

UserIds == 1..NumUsers

\* An email or a phone is a sequence of one-character strings; None and ""
\* are both the empty sequence (every test of the code on them is a truth
\* test).

\* norm_email
norm_email(e) == IF e # <<>> THEN Lower(Strip(e)) ELSE <<>>

DigitChars == {"0", "1", "2", "3", "4", "5", "6", "7", "8", "9"}

StartsWith(s, prefix) ==
    Len(s) >= Len(prefix) /\ SubSeq(s, 1, Len(prefix)) = prefix

\* str.isdigit()
IsDigits(s) == s # <<>> /\ \A n \in 1..Len(s) : s[n] \in DigitChars

\* norm_phone: the digits and "+" of the text, a leading "00" made "+", and
\* a national number of nine or ten digits starting with 0 made "+966...".
norm_phone(p) ==
    IF p = <<>> THEN <<>>
    ELSE LET kept == SelectSeq(p, LAMBDA ch : ch \in DigitChars \cup {"+"})
             s == IF StartsWith(kept, <<"0", "0">>)
                  THEN <<"+">> \o SubSeq(kept, 3, Len(kept))
                  ELSE kept
         IN  IF ~StartsWith(s, <<"+">>) /\ IsDigits(s)
                /\ StartsWith(s, <<"0">>) /\ Len(s) \in {9, 10}
             THEN <<"+", "9", "6", "6">> \o SubSeq(s, 2, Len(s))
             ELSE s

\* One phone number written three ways, and another number.
PhoneLocal == <<"0", "5", "1", "2", "3", "4", "5", "6", "7", "8">>
PhoneSpaced == <<"+", "9", "6", "6", " ", "5", "1", "2", "3", "4", "5", "6", "7", "8">>
PhoneZeros == <<"0", "0", "9", "6", "6", "5", "1", "2", "3", "4", "5", "6", "7", "8">>
PhoneOther == <<"0", "5", "9">>

\* created_ts of an unparsable created_at: float("inf").
Inf == 1000

\* An unparsable created_at counted as the oldest.
created_ts_oldest(u) ==
    IF IsoParses(ReplaceZ(u.created_at))
    THEN IsoInstant(ReplaceZ(u.created_at)) ELSE 0 - Inf

\* created_ts of pick_survivor.
created_ts(u) ==
    IF IsoParses(ReplaceZ(u.created_at))
    THEN IsoInstant(ReplaceZ(u.created_at)) ELSE Inf

\* The key of pick_survivor.
SurvivorKey(u, counts) ==
    <<DictGet(counts, u.id), IF u.verified THEN 1 ELSE 0, 0 - created_ts(u)>>

\* Python's order on tuples of numbers of the same length.
RECURSIVE TupleLess(_, _)
TupleLess(a, b) ==
    IF a = <<>> THEN FALSE
    ELSE IF Head(a) # Head(b) THEN Head(a) < Head(b)
    ELSE TupleLess(Tail(a), Tail(b))

\* pick_survivor: max(candidates, key=...)["id"]; max keeps the first of the
\* candidates whose key no other exceeds.
pick_survivor(cands, counts) ==
    LET best == {m \in 1..Len(cands) :
                    \A o \in 1..Len(cands) :
                        ~TupleLess(SurvivorKey(cands[m], counts),
                                   SurvivorKey(cands[o], counts))}
    IN  cands[FirstOf(best)].id

\* os.getenv(name): None for a variable that is not set, its text otherwise.
Unset == [set |-> FALSE, value |-> <<>>]
EnvText(value) == [set |-> TRUE, value |-> value]

\* Line 23: DRY_RUN = os.getenv("DRY_RUN", "true").lower() == "true".
DryRunOf(setting) ==
    Lower(IF setting.set THEN setting.value ELSE <<"t", "r", "u", "e">>)
        = <<"t", "r", "u", "e">>

\* Lines 169-197: the state of main when it starts.
UserStartWith(directory, tickets_solved, dry_run, limit) ==
    /\ users = directory
    /\ solved = tickets_solved
    /\ DRY_RUN = dry_run
    /\ max_merges = limit
    /\ user_pc = "preflight"
    /\ preflight_ok = "pending"
    /\ requester_counts = EmptyDict
    /\ requester_ids = {}
    /\ visited = {}
    /\ req_by_id = {}
    /\ planned = <<>>
    /\ plan_i = 0
    /\ merged_users = 0
    /\ puts = <<>>
    /\ merge_log = <<>>

\* The run under the cap MAX_MERGES.
UserStart(directory, tickets_solved, dry_run) ==
    UserStartWith(directory, tickets_solved, dry_run, MAX_MERGES)

\* The run going on whatever the account request answered.
AfterPreflightIgnored(ok) == "search"

\* preflight: any status but 200 raises SystemExit.
AfterPreflight(ok) == IF ok THEN "search" ELSE "exit"

\* Line 169: preflight().
Preflight ==
    /\ user_pc = "preflight"
    /\ \E ok \in BOOLEAN :
        /\ preflight_ok' = IF ok THEN "ok" ELSE "failed"
        /\ user_pc' = AfterPreflight(ok)
    /\ UNCHANGED <<users, solved, DRY_RUN, max_merges, requester_counts, requester_ids, visited,
                   req_by_id, planned, plan_i, merged_users, puts, merge_log>>
    /\ UNCHANGED outsideUser

\* Lines 180-185: the counts after the first n tickets of the search; a
\* ticket without requester_id (0) is passed over.
RECURSIVE CountSolved(_, _)
CountSolved(tickets_solved, n) ==
    IF n = 0 THEN EmptyDict
    ELSE LET before == CountSolved(tickets_solved, n - 1)
             rid == tickets_solved[n]
         IN  IF rid = 0 THEN before
             ELSE DictPut(before, rid, DictGet(before, rid) + 1)

\* Lines 171-197: the solved tickets of the window are counted by requester
\* and the requesters fetched; a request that fails raises and ends the run
\* (lines 303-305); without any requester the run ends.
SearchSolved ==
    /\ user_pc = "search"
    /\ \E ok \in BOOLEAN :
        IF ~ok
        THEN /\ user_pc' = "exit"
             /\ UNCHANGED <<requester_counts, requester_ids, req_by_id>>
        ELSE /\ requester_counts' = CountSolved(solved, Len(solved))
             /\ requester_ids' = DOMAIN CountSolved(solved, Len(solved))
             /\ IF DOMAIN CountSolved(solved, Len(solved)) = {}
                THEN user_pc' = "done" /\ req_by_id' = req_by_id
                ELSE user_pc' = "plan"
                     /\ req_by_id' = DOMAIN CountSolved(solved, Len(solved))
    /\ UNCHANGED <<users, solved, DRY_RUN, max_merges, preflight_ok, visited, planned, plan_i,
                   merged_users, puts, merge_log>>
    /\ UNCHANGED outsideUser

IsEndUser(u) == LowerStr(u.role) = "end-user"

\* Lines 224-239: the normalized emails and phones of the requester, the
\* primary ones and, when the identities were fetched, those of the
\* identities.
IdentValues(u, types, with_identities) ==
    IF with_identities
    THEN {u.identities[n].value :
             n \in {m \in 1..Len(u.identities) : u.identities[m].type \in types}}
    ELSE {}

RequesterEmails(u, with_identities) ==
    {norm_email(e) : e \in {u.email} \cup IdentValues(u, {"email"}, with_identities)}
        \ {<<>>}

RequesterPhones(u, with_identities) ==
    {norm_phone(p) :
        p \in {u.phone} \cup IdentValues(u, {"phone_number", "phone"}, with_identities)}
        \ {<<>>}

\* search_users_by_term: the platform's answer, here every user; main keeps
\* of it the end-users whose normalized email or phone is the term.
search_users_by_term(term) == {users[id] : id \in UserIds}

\* The cluster that takes the users of any role.
ClusterOfAnyRole(rid, with_identities) ==
    {rid}
    \cup UNION {{u.id : u \in {v \in {users[id] : id \in UserIds} :
                                 norm_email(v.email) = ee}} :
                ee \in RequesterEmails(users[rid], with_identities)}
    \cup UNION {{u.id : u \in {v \in {users[id] : id \in UserIds} :
                                 norm_phone(v.phone) = pp}} :
                pp \in RequesterPhones(users[rid], with_identities)}

\* Lines 242-260: the cluster of a requester: the requester and, for each
\* of its emails and phones, the end-users of the search result whose own
\* normalized email or phone is that term.
ClusterOf(rid, with_identities) ==
    {rid}
    \cup UNION {{u.id : u \in {v \in search_users_by_term(ee) :
                                 IsEndUser(v) /\ norm_email(v.email) = ee}} :
                ee \in RequesterEmails(users[rid], with_identities)}
    \cup UNION {{u.id : u \in {v \in search_users_by_term(pp) :
                                 IsEndUser(v) /\ norm_phone(v.phone) = pp}} :
                pp \in RequesterPhones(users[rid], with_identities)}

\* The orders in which a Python set can be gone through.
OrdersOf(S) ==
    {f \in [1..Cardinality(S) -> S] : \A a, b \in 1..Cardinality(S) : f[a] = f[b] => a = b}

\* Lines 272-278: the merges planned for a cluster gone through in the
\* given order.
PlanFor(order, counts) ==
    LET survivor == pick_survivor([m \in 1..Len(order) |-> users[order[m]]], counts)
        sources == SelectSeq(order, LAMBDA uid : uid # survivor)
    IN  [m \in 1..Len(sources) |-> [src |-> sources[m], tgt |-> survivor]]

\* requester_identities: whether the identities were fetched; the failure of
\* the request shows only when the user has identities.
IdentityOutcomes(u) == IF u.identities = <<>> THEN {TRUE} ELSE BOOLEAN

\* Lines 219-278: one iteration of the loop over requester_ids (a set: any
\* requester not yet gone through can come next).  A search or a fetch that
\* fails raises and ends the run; requester_identities gives [] when its
\* request fails.
PlanRequester ==
    /\ user_pc = "plan"
    /\ \E rid \in requester_ids \ visited :
        /\ visited' = visited \cup {rid}
        /\ IF rid \notin req_by_id \/ ~IsEndUser(users[rid])
           THEN UNCHANGED <<user_pc, req_by_id, planned>>
           ELSE \E with_identities \in IdentityOutcomes(users[rid]) : \E ok \in BOOLEAN :
                LET cluster_ids == ClusterOf(rid, with_identities)
                IN  IF ~ok
                    THEN /\ RequesterEmails(users[rid], with_identities)
                              \cup RequesterPhones(users[rid], with_identities) # {}
                         /\ user_pc' = "exit"
                         /\ UNCHANGED <<req_by_id, planned>>
                    ELSE IF Cardinality(cluster_ids) <= 1
                    THEN UNCHANGED <<user_pc, req_by_id, planned>>
                    ELSE /\ req_by_id' = req_by_id \cup cluster_ids
                         /\ \E order \in OrdersOf(cluster_ids) :
                                planned' = planned \o PlanFor(order, requester_counts)
                         /\ UNCHANGED user_pc
    /\ UNCHANGED <<users, solved, DRY_RUN, max_merges, preflight_ok, requester_counts,
                   requester_ids, plan_i, merged_users, puts, merge_log>>
    /\ UNCHANGED outsideUser

\* Lines 285-288: the pairs of the plan, each once, in the order of their
\* first occurrence (a dict keyed by the pair).
RECURSIVE Dedupe(_)
Dedupe(pairs) ==
    IF pairs = <<>> THEN <<>>
    ELSE LET front == Dedupe(SubSeq(pairs, 1, Len(pairs) - 1))
             last == pairs[Len(pairs)]
         IN  IF \E n \in 1..Len(front) : front[n] = last
             THEN front ELSE Append(front, last)

\* Lines 280-291: the loop over the requesters is over; an empty plan ends
\* the run, any other is de-duplicated.
EndPlan ==
    /\ user_pc = "plan"
    /\ visited = requester_ids
    /\ IF planned = <<>>
       THEN user_pc' = "done" /\ UNCHANGED <<planned, plan_i>>
       ELSE user_pc' = "execute" /\ planned' = Dedupe(planned) /\ plan_i' = 1
    /\ UNCHANGED <<users, solved, DRY_RUN, max_merges, preflight_ok, requester_counts,
                   requester_ids, visited, req_by_id, merged_users, puts, merge_log>>
    /\ UNCHANGED outsideUser

\* A merge_user that sends the request in a dry run too.
IsDryRunNever == FALSE

\* merge_user, line 157: if DRY_RUN.
IsDryRun == DRY_RUN

\* The end of the slice s[:n] of a sequence of the given length: n
\* elements at most, and for a negative n all but the last -n.
SliceEnd(length, n) ==
    IF n >= length THEN length
    ELSE IF n >= 0 THEN n
    ELSE IF length + n > 0 THEN length + n
    ELSE 0

\* Line 292: planned[:MAX_MERGES].
Capped(pairs) == SubSeq(pairs, 1, SliceEnd(Len(pairs), max_merges))

\* Lines 292-296 and merge_user: one iteration of the merge loop.  In a dry
\* run nothing is sent and the merge counts; otherwise the PUT is sent and
\* the merge counts when the answer is a success; a request that raises
\* ends the run.
MergeUser ==
    /\ user_pc = "execute"
    /\ plan_i <= Len(Capped(planned))
    /\ LET src == Capped(planned)[plan_i].src
           tgt == Capped(planned)[plan_i].tgt
       IN  IF IsDryRun
           THEN /\ merge_log' = Append(merge_log,
                                   [src |-> src, tgt |-> tgt, outcome |-> "dry-run"])
                /\ merged_users' = merged_users + 1
                /\ plan_i' = plan_i + 1
                /\ UNCHANGED <<user_pc, puts>>
           ELSE \E outcome \in {"merged", "failed", "raised"} :
                /\ puts' = Append(puts, [source |-> src, target |-> tgt,
                                         outcome |-> outcome])
                /\ IF outcome = "raised"
                   THEN /\ user_pc' = "exit"
                        /\ UNCHANGED <<merge_log, merged_users, plan_i>>
                   ELSE /\ merge_log' = Append(merge_log,
                                   [src |-> src, tgt |-> tgt, outcome |-> outcome])
                        /\ merged_users' =
                               IF outcome = "merged"
                               THEN merged_users + 1 ELSE merged_users
                        /\ plan_i' = plan_i + 1
                        /\ UNCHANGED user_pc
    /\ UNCHANGED <<users, solved, DRY_RUN, max_merges, preflight_ok, requester_counts,
                   requester_ids, visited, req_by_id, planned>>
    /\ UNCHANGED outsideUser

\* Line 298: the loop is over, the number of merges is logged.
UserDone ==
    /\ user_pc = "execute"
    /\ plan_i > Len(Capped(planned))
    /\ user_pc' = "done"
    /\ UNCHANGED <<users, solved, DRY_RUN, max_merges, preflight_ok, requester_counts,
                   requester_ids, visited, req_by_id, planned, plan_i,
                   merged_users, puts, merge_log>>
    /\ UNCHANGED outsideUser

UserNext ==
    \/ Preflight \/ SearchSolved \/ PlanRequester \/ EndPlan \/ MergeUser \/ UserDone

\* pick_survivor called on a list of candidates.
Pick ==
    /\ picked = 0
    /\ candidates # <<>>
    /\ picked' = pick_survivor(candidates, requester_counts)
    /\ UNCHANGED <<candidates, userVars>>
    /\ UNCHANGED outsidePick

\* ------------------------------------------------------------------------
\* Part IV - the note sync (src/script.py, sync_note)
\* ------------------------------------------------------------------------

\* Texts are sequences of one-character strings, as in Part I.

\* The character classes of the patterns: [A-Za-z], \d, \w, \s.
AsciiLetters ==
    {"a", "b", "c", "d", "e", "f", "g", "h", "i", "j", "k", "l", "m",
     "n", "o", "p", "q", "r", "s", "t", "u", "v", "w", "x", "y", "z",
     "A", "B", "C", "D", "E", "F", "G", "H", "I", "J", "K", "L", "M",
     "N", "O", "P", "Q", "R", "S", "T", "U", "V", "W", "X", "Y", "Z"}
WordChars == AsciiLetters \cup DigitChars \cup {"_"}

\* The items of a pattern: a character class repeated between min and max
\* times (max -1: no limit), always greedy, or the assertion \b.
Rep(cls, min, max) == [kind |-> "chars", cls |-> cls, min |-> min, max |-> max]
One(cls) == Rep(cls, 1, 1)
Star(cls) == Rep(cls, 0, -1)
AtLeast(cls, min) == Rep(cls, min, -1)
Optional(cls) == Rep(cls, 0, 1)
WordBoundary == [kind |-> "b", cls |-> {}, min |-> 0, max |-> 0]

\* \b at the position before text[pos]: a word character on one side only.
AtBoundary(text, pos) ==
    LET before == pos > 1 /\ text[pos - 1] \in WordChars
        after == pos <= Len(text) /\ text[pos] \in WordChars
    IN  before # after

\* The number of characters of the class from text[pos] on, max at most.
RECURSIVE Run(_, _, _, _)
Run(text, pos, cls, max) ==
    IF max = 0 \/ pos > Len(text) \/ text[pos] \notin cls
    THEN 0
    ELSE 1 + Run(text, pos + 1, cls, max - 1)

NoMatch == [ok |-> FALSE, ends |-> <<>>]

\* The backtracking match of the items from items[at] on at text[pos]: the
\* position after each item for the first way that matches, the longest
\* repetition being tried first.
\* An item that ends before text[end], followed by the match of the rest.
Then(end, rest) ==
    IF rest.ok THEN [ok |-> TRUE, ends |-> <<end>> \o rest.ends] ELSE NoMatch

\* The first of two ways to match that does.
OrElse(way, other) == IF way.ok THEN way ELSE other

RECURSIVE MatchItems(_, _, _, _)
RECURSIVE TryCounts(_, _, _, _, _)
TryCounts(items, at, text, pos, count) ==
    IF count < items[at].min
    THEN NoMatch
    ELSE OrElse(Then(pos + count, MatchItems(items, at + 1, text, pos + count)),
                TryCounts(items, at, text, pos, count - 1))

MatchItems(items, at, text, pos) ==
    IF at > Len(items)
    THEN [ok |-> TRUE, ends |-> <<>>]
    ELSE IF items[at].kind = "b"
    THEN IF AtBoundary(text, pos)
         THEN Then(pos, MatchItems(items, at + 1, text, pos))
         ELSE NoMatch
    ELSE TryCounts(items, at, text, pos,
                   Run(text, pos, items[at].cls, items[at].max))

\* re.search(pattern, text).group(1) for a pattern whose group spans the
\* items first..last: the text of the group at the leftmost match, <<>>
\* when there is no match (a group is never empty in these patterns).
RECURSIVE SearchFrom(_, _, _, _, _)
RECURSIVE GroupOrNext(_, _, _, _, _, _)
GroupOrNext(m, items, first, last, text, start) ==
    IF m.ok
    THEN SubSeq(text,
                IF first = 1 THEN start ELSE m.ends[first - 1],
                m.ends[last] - 1)
    ELSE SearchFrom(items, first, last, text, start + 1)

SearchFrom(items, first, last, text, start) ==
    IF start > Len(text) + 1
    THEN <<>>
    ELSE GroupOrNext(MatchItems(items, 1, text, start),
                     items, first, last, text, start)

Search(items, first, last, text) == SearchFrom(items, first, last, text, 1)

\* The letters of a word of the pattern under re.I.
AnyCase(lower, upper) == One({lower, upper})
OrderWord ==
    <<AnyCase("o", "O"), AnyCase("r", "R"), AnyCase("d", "D"),
      AnyCase("e", "E"), AnyCase("r", "R")>>

\* r"#(\d+)"
HashDigits == <<One({"#"}), AtLeast(DigitChars, 1)>>

\* r"\border\s*id\b\s*[:#-]?\s*(\d{10,20})", re.I
IdLabeled ==
    <<WordBoundary>> \o OrderWord
        \o <<Star(Whitespace), AnyCase("i", "I"), AnyCase("d", "D"), WordBoundary,
             Star(Whitespace), Optional({":", "#", "-"}), Star(Whitespace),
             Rep(DigitChars, 10, 20)>>

\* r"\border\s*name\b\s*[:#-]?\s*([A-Za-z][A-Za-z0-9-#]{3,})", re.I
NameLabeled ==
    <<WordBoundary>> \o OrderWord
        \o <<Star(Whitespace), AnyCase("n", "N"), AnyCase("a", "A"),
             AnyCase("m", "M"), AnyCase("e", "E"), WordBoundary,
             Star(Whitespace), Optional({":", "#", "-"}), Star(Whitespace),
             One(AsciiLetters),
             AtLeast(AsciiLetters \cup DigitChars \cup {"-", "#"}, 3)>>

\* r"#(\d{3,})"
NumericName == <<One({"#"}), AtLeast(DigitChars, 3)>>

\* r"\b([A-Za-z][0-9]{5,})\b"
AlphaDigit ==
    <<WordBoundary, One(AsciiLetters), AtLeast(DigitChars, 5), WordBoundary>>

\* r"\b(\d{10,20})\b"
LongDigits == <<WordBoundary, Rep(DigitChars, 10, 20), WordBoundary>>

\* Most calls of a function of script.py on its own in one behaviour.
MaxCalls == 2

\* The configuration _get_required_config reads from the environment.
ConfigNames == {"EMAIL", "API_TOKEN", "SUBDOMAIN", "SHOPIFY_TOKEN", "SHOPIFY_DOMAIN"}

\* The configuration check that takes an empty value for a value.
MissingConfigUnsetOnly == {name \in ConfigNames : ~env[name].set}

\* _get_required_config: the names whose value is None or "" (`not value`);
\* RuntimeError is raised when there is one.
MissingConfig ==
    {name \in ConfigNames : ~env[name].set \/ env[name].value = <<>>}

\* _should_upload_attachments: UPLOAD_ZENDESK_ATTACHMENTS, stripped and
\* lowercased, is "1", "true" or "yes" ("" when the variable is not set).
_should_upload_attachments ==
    Lower(Strip(upload_env)) \in {<<"1">>, <<"t", "r", "u", "e">>, <<"y", "e", "s">>}

\* _normalize_ticket_id: the first run of digits of the text, <<>> when the
\* text has no digit (ValueError).
_normalize_ticket_id(raw_ticket_id) ==
    Search(<<AtLeast(DigitChars, 1)>>, 1, 1, raw_ticket_id)

\* What a call did: the exception it raised ("" for none), the HTTP requests
\* it sent, and what it returned.
Raised(error) == [raised |-> error, requests |-> <<>>, value |-> <<>>]
Request(method, service, resource, target, body) ==
    [method |-> method, service |-> service, resource |-> resource,
     target |-> target, body |-> body]
Sent(request, ok, value) ==
    [raised |-> IF ok THEN "" ELSE "HTTPError", requests |-> <<request>>,
     value |-> IF ok THEN value ELSE <<>>]

\* get_zendesk_ticket: the configuration, the ticket id, then the GET;
\* raise_for_status raises on an error status.
get_zendesk_ticket(ticket_id, ok) ==
    IF MissingConfig # {} THEN Raised("RuntimeError")
    ELSE IF _normalize_ticket_id(ticket_id) = <<>> THEN Raised("ValueError")
    ELSE Sent(Request("GET", "zendesk", "ticket", _normalize_ticket_id(ticket_id), <<>>),
              ok, zd_ticket)

\* _get_ticket_comments
_get_ticket_comments(ticket_id, ok) ==
    IF MissingConfig # {} THEN Raised("RuntimeError")
    ELSE IF _normalize_ticket_id(ticket_id) = <<>> THEN Raised("ValueError")
    ELSE Sent(Request("GET", "zendesk", "comments", _normalize_ticket_id(ticket_id), <<>>),
              ok, zd_comments)

\* _download_zendesk_attachment
_download_zendesk_attachment(content_url, ok) ==
    IF MissingConfig # {} THEN Raised("RuntimeError")
    ELSE Sent(Request("GET", "zendesk", "attachment", content_url, <<>>), ok, <<>>)

\* upload_file_to_shopify_bytes: the POST of the file; the value is the
\* public_url or url of the answer, "" when it has neither.
upload_file_to_shopify_bytes(filename, ok, file_url) ==
    IF MissingConfig # {} THEN Raised("RuntimeError")
    ELSE Sent(Request("POST", "shopify", "files", filename, <<>>), ok, file_url)

\* int(order_id) on the texts of the model: a run of digits.
IntParses(text) == IsDigits(text)

\* append_order_note: the configuration, int(order_id) for the payload,
\* then the PUT of the note on the order.
append_order_note(order_id, note_text, ok) ==
    IF MissingConfig # {} THEN Raised("RuntimeError")
    ELSE IF ~IntParses(order_id) THEN Raised("ValueError")
    ELSE Sent(Request("PUT", "shopify", "order", order_id, note_text), ok, <<>>)

\* get_order_id_from_ticket: the digits after the first "#" of the subject
\* that is followed by a digit; <<>> for None.
get_order_id_from_ticket(ticket) == Search(HashDigits, 2, 2, ticket.subject)

\* a or b on texts
Or(a, b) == IF a # <<>> THEN a ELSE b

\* Lines 124-129: order_id and order_name from the five groups.
CandidatesOf(id_labeled, name_labeled, numeric_name, alpha_digit, long_digits) ==
    [order_id |-> IF id_labeled # <<>> THEN id_labeled ELSE long_digits,
     order_name |-> IF name_labeled # <<>> THEN name_labeled
                    ELSE IF numeric_name # <<>> THEN <<"#">> \o numeric_name
                    ELSE alpha_digit]

\* _extract_order_candidates_from_text; <<>> for None.
_extract_order_candidates_from_text(text) ==
    CandidatesOf(Search(IdLabeled, Len(IdLabeled), Len(IdLabeled), text),
                 Search(NameLabeled, Len(NameLabeled) - 1, Len(NameLabeled), text),
                 Search(NumericName, 2, 2, text),
                 Search(AlphaDigit, 2, 3, text),
                 Search(LongDigits, 2, 2, text))

Complete(result) == result.order_id # <<>> /\ result.order_name # <<>>

\* The loops over tags, custom fields and comments: each text fills what is
\* still missing, up to the first text after which nothing is.
Filled(result, found) ==
    [order_id |-> Or(result.order_id, found.order_id),
     order_name |-> Or(result.order_name, found.order_name)]

RECURSIVE FillFrom(_, _)
FillMore(result, texts) ==
    IF Complete(result) THEN result ELSE FillFrom(result, texts)

FillFrom(result, texts) ==
    IF texts = <<>>
    THEN result
    ELSE FillMore(Filled(result, _extract_order_candidates_from_text(Head(texts))),
                  Tail(texts))

\* _extract_order_candidates: subject and description, then the tags, then
\* the custom field values (str(value) of each).
_extract_order_candidates(ticket) ==
    FillMore(FillMore(_extract_order_candidates_from_text(
                          ticket.subject \o <<"\n">> \o ticket.description),
                      ticket.tags),
             ticket.custom_fields)

Reverse(s) == [n \in 1..Len(s) |-> s[Len(s) + 1 - n]]

\* _extract_from_comments_if_needed, once the comments were fetched: newest
\* first, body and plain_body of each.
FromComments(current, comments) ==
    FillFrom(current,
             [n \in 1..Len(comments) |->
                 Reverse(comments)[n].body \o <<"\n">> \o Reverse(comments)[n].plain_body])

\* str.lstrip("#")
RECURSIVE LstripHash(_)
LstripHash(s) == IF s # <<>> /\ Head(s) = "#" THEN LstripHash(Tail(s)) ELSE s

\* _resolve_order_id_from_name: the name, then the name without or with a
\* leading "#"; each query is one POST whose answer names an order id, names
\* none, or fails (the exception is swallowed); the first id ends the loop.
OrderNameCandidates(order_name) ==
    <<order_name,
      IF StartsWith(order_name, <<"#">>) THEN LstripHash(order_name)
      ELSE <<"#">> \o order_name>>

QueryAnswers == {"found", "none", "failed"}

_resolve_order_id_from_name(order_name, first_answer, second_answer, resolved_id) ==
    LET query(n) == Request("POST", "shopify", "graphql", OrderNameCandidates(order_name)[n], <<>>)
    IN  IF MissingConfig # {} THEN Raised("RuntimeError")
        ELSE IF first_answer = "found"
        THEN [raised |-> "", requests |-> <<query(1)>>, value |-> resolved_id]
        ELSE [raised |-> "", requests |-> <<query(1), query(2)>>,
              value |-> IF second_answer = "found" THEN resolved_id ELSE <<>>]

\* "\n".join(parts)
RECURSIVE JoinLines(_)
JoinLines(parts) ==
    IF parts = <<>> THEN <<>>
    ELSE IF Len(parts) = 1 THEN parts[1]
    ELSE parts[1] \o <<"\n">> \o JoinLines(Tail(parts))

\* f"Zendesk Ticket #{_normalize_ticket_id(ticket_id)}: {comment_text}"
NoteHead(ticket_id) ==
    <<"Z", "e", "n", "d", "e", "s", "k", " ", "T", "i", "c", "k", "e", "t", " ", "#">>
        \o _normalize_ticket_id(ticket_id) \o <<":", " ">>
FirstNotePart(ticket_id, comment_text) == NoteHead(ticket_id) \o comment_text

\* f"Attachment uploaded: {file_url}"
AttachmentPart(file_url) ==
    <<"A", "t", "t", "a", "c", "h", "m", "e", "n", "t", " ", "u", "p", "l", "o", "a", "d", "e", "d", ":", " ">>
        \o file_url

\* The order id the order platform gives for an order name it knows.
ResolvedId == <<"7", "0", "0", "1">>

\* The file link the order platform gives back for an upload: none, or one.
FileUrls == {<<>>, <<"u">>}

NoTicket == [subject |-> <<>>, description |-> <<>>, tags |-> <<>>, custom_fields |-> <<>>]
NoCandidates == [order_id |-> <<>>, order_name |-> <<>>]

\* What print wrote: which message, about which ticket and which order.
Printed(msg, ticket_id, order) == [msg |-> msg, ticket |-> ticket_id, order |-> order]

\* The state when sync_note(ticket_id) is called.
SyncStart(environment, upload, ticket_id, ticket_on_platform, comments_on_platform) ==
    /\ env = environment
    /\ upload_env = upload
    /\ sync_ticket_id = ticket_id
    /\ zd_ticket = ticket_on_platform
    /\ zd_comments = comments_on_platform
    /\ sync_pc = "start"
    /\ sync_ticket = NoTicket
    /\ sync_candidates = NoCandidates
    /\ sync_order_id = <<>>
    /\ final_note_parts = <<>>
    /\ http = <<>>
    /\ out = <<>>
    /\ sync_error = ""
    /\ calls = <<>>

\* Line 289: ticket = get_zendesk_ticket(ticket_id); an exception ends the
\* run.
SyncGetTicket ==
    /\ sync_pc = "start"
    /\ \E ok \in BOOLEAN :
        LET r == get_zendesk_ticket(sync_ticket_id, ok)
        IN  /\ http' = http \o r.requests
            /\ sync_error' = r.raised
            /\ sync_pc' = IF r.raised = "" THEN "extract" ELSE "raised"
            /\ sync_ticket' = IF r.raised = "" THEN r.value ELSE sync_ticket
    /\ UNCHANGED <<env, upload_env, sync_ticket_id, zd_ticket, zd_comments,
                   sync_candidates, sync_order_id, final_note_parts, out,
                   calls>>
    /\ UNCHANGED outsideSync

\* Lines 292-298: the candidates of the ticket, completed from the comments
\* when one is missing (a comment fetch that fails leaves them as they are),
\* and the two messages.
SyncExtract ==
    /\ sync_pc = "extract"
    /\ \E ok \in BOOLEAN :
        LET from_ticket == _extract_order_candidates(sync_ticket)
            asked == ~Complete(from_ticket)
            r == _get_ticket_comments(sync_ticket_id, ok)
            completed == IF asked /\ r.raised = ""
                         THEN FromComments(from_ticket, r.value)
                         ELSE from_ticket
        IN  /\ http' = IF asked THEN http \o r.requests ELSE http
            /\ sync_candidates' = completed
            /\ out' = out
                   \o (IF completed.order_id # <<>>
                       THEN <<Printed("Found Shopify order id in note", <<>>,
                                      completed.order_id)>>
                       ELSE <<>>)
                   \o (IF completed.order_name # <<>>
                       THEN <<Printed("Found order name in note", <<>>,
                                      completed.order_name)>>
                       ELSE <<>>)
    /\ sync_pc' = "lookup"
    /\ UNCHANGED <<env, upload_env, sync_ticket_id, zd_ticket, zd_comments,
                   sync_ticket, sync_order_id, final_note_parts, sync_error,
                   calls>>
    /\ UNCHANGED outsideSync

\* The run that goes on to the write without an order id.
AfterLookupAlwaysWrite(order_id) == "attach"

\* Lines 320-322: without an order id sync_note returns.
AfterLookup(order_id) == IF order_id = <<>> THEN "done" ELSE "attach"

\* The order id of the candidates taken before the one of the subject.
OrderIdCandidateFirst(legacy, candidate_id) == Or(candidate_id, legacy)

\* Lines 301-305: the order id of the subject, else the one of the
\* candidates.
OrderIdOnHand(legacy, candidate_id) == Or(legacy, candidate_id)

\* Lines 300-322: the order id of the subject, else the one of the
\* candidates, else the one the order name resolves to; without any, the
\* message and the return.
SyncLookup ==
    /\ sync_pc = "lookup"
    /\ \E first_answer, second_answer \in QueryAnswers :
        LET legacy == get_order_id_from_ticket(sync_ticket)
            from_text == OrderIdOnHand(legacy, sync_candidates.order_id)
            by_name == from_text = <<>> /\ sync_candidates.order_name # <<>>
            r == _resolve_order_id_from_name(sync_candidates.order_name,
                                             first_answer, second_answer, ResolvedId)
            order_id == IF by_name THEN r.value ELSE from_text
        IN  IF by_name /\ r.raised # ""
            THEN /\ sync_error' = r.raised
                 /\ sync_pc' = "raised"
                 /\ UNCHANGED <<http, sync_order_id, out>>
            ELSE /\ http' = IF by_name THEN http \o r.requests ELSE http
                 /\ sync_order_id' = order_id
                 /\ sync_pc' = AfterLookup(order_id)
                 /\ out' = out
                        \o (IF by_name
                            THEN <<Printed(IF order_id # <<>>
                                           THEN "Resolved order name"
                                           ELSE "could not resolve",
                                           <<>>, sync_candidates.order_name)>>
                            ELSE <<>>)
                        \o (IF order_id = <<>>
                            THEN <<Printed("No Shopify order ID found in ticket",
                                           _normalize_ticket_id(sync_ticket_id), <<>>)>>
                            ELSE <<>>)
                 /\ UNCHANGED sync_error
    /\ UNCHANGED <<env, upload_env, sync_ticket_id, zd_ticket, zd_comments,
                   sync_ticket, sync_candidates, final_note_parts, calls>>
    /\ UNCHANGED outsideSync

\* The position of the first comment that has attachments, 0 for none.
RECURSIVE FirstWithAttachments(_, _)
FirstWithAttachments(comments, n) ==
    IF n > Len(comments) THEN 0
    ELSE IF comments[n].attachments # <<>> THEN n
    ELSE FirstWithAttachments(comments, n + 1)

\* Lines 328-342: the comments are fetched, the first attachment of the
\* first comment that has one is downloaded and uploaded, and its link is
\* added to the note; any of the three calls may raise.
UploadFirstAttachment(ok_comments, ok_download, ok_upload, file_url) ==
    LET rc == _get_ticket_comments(sync_ticket_id, ok_comments)
        n == FirstWithAttachments(rc.value, 1)
        first == rc.value[n].attachments[1]
        filename == IF first.file_name # <<>> THEN first.file_name
                    ELSE <<"a", "t", "t", "a", "c", "h", "m", "e", "n", "t">>
        rd == _download_zendesk_attachment(first.content_url, ok_download)
        ru == upload_file_to_shopify_bytes(filename, ok_upload, file_url)
    IN  IF rc.raised # "" THEN rc
        ELSE IF n = 0 \/ first.content_url = <<>>
        THEN [raised |-> "", requests |-> rc.requests, value |-> <<>>]
        ELSE IF rd.raised # ""
        THEN [raised |-> rd.raised, requests |-> rc.requests \o rd.requests,
              value |-> <<>>]
        ELSE [raised |-> ru.raised,
              requests |-> rc.requests \o rd.requests \o ru.requests,
              value |-> ru.value]

\* Lines 324-342: the first part of the note, and the attachment link when
\* uploads are switched on.
SyncAttach ==
    /\ sync_pc = "attach"
    /\ \E ok_comments, ok_download, ok_upload \in BOOLEAN : \E file_url \in FileUrls :
        LET first_part == FirstNotePart(sync_ticket_id, sync_ticket.description)
            r == UploadFirstAttachment(ok_comments, ok_download, ok_upload, file_url)
        IN  IF ~_should_upload_attachments
            THEN /\ final_note_parts' = <<first_part>>
                 /\ sync_pc' = "append"
                 /\ UNCHANGED <<http, sync_error>>
            ELSE /\ http' = http \o r.requests
                 /\ sync_error' = r.raised
                 /\ sync_pc' = IF r.raised = "" THEN "append" ELSE "raised"
                 /\ final_note_parts' =
                        IF r.raised = "" /\ r.value # <<>>
                        THEN <<first_part, AttachmentPart(r.value)>>
                        ELSE <<first_part>>
    /\ UNCHANGED <<env, upload_env, sync_ticket_id, zd_ticket, zd_comments,
                   sync_ticket, sync_candidates, sync_order_id, out, calls>>
    /\ UNCHANGED outsideSync

\* Lines 344-346: the note is written on the order.
SyncAppend ==
    /\ sync_pc = "append"
    /\ \E ok \in BOOLEAN :
        LET r == append_order_note(sync_order_id, JoinLines(final_note_parts), ok)
        IN  /\ http' = http \o r.requests
            /\ sync_error' = r.raised
            /\ sync_pc' = IF r.raised = "" THEN "done" ELSE "raised"
            /\ out' = IF r.raised = ""
                      THEN Append(out, Printed("Synced ticket",
                                               _normalize_ticket_id(sync_ticket_id),
                                               sync_order_id))
                      ELSE out
    /\ UNCHANGED <<env, upload_env, sync_ticket_id, zd_ticket, zd_comments,
                   sync_ticket, sync_candidates, sync_order_id,
                   final_note_parts, calls>>
    /\ UNCHANGED outsideSync

SyncNext == SyncGetTicket \/ SyncExtract \/ SyncLookup \/ SyncAttach \/ SyncAppend

\* The functions of script.py that read the configuration.
Operations ==
    {"get_zendesk_ticket", "_get_ticket_comments", "_download_zendesk_attachment",
     "upload_file_to_shopify_bytes", "append_order_note", "_resolve_order_id_from_name"}

\* One of these functions is called on its own, as the tests call them,
\* sync_note not being run.
CallOperation ==
    /\ sync_pc = "start"
    /\ Len(calls) < MaxCalls
    /\ \E op \in Operations : \E ok \in BOOLEAN :
        LET r == CASE op = "get_zendesk_ticket" -> get_zendesk_ticket(sync_ticket_id, ok)
                   [] op = "_get_ticket_comments" -> _get_ticket_comments(sync_ticket_id, ok)
                   [] op = "_download_zendesk_attachment" ->
                          _download_zendesk_attachment(<<"u">>, ok)
                   [] op = "upload_file_to_shopify_bytes" ->
                          upload_file_to_shopify_bytes(<<"f">>, ok, <<"u">>)
                   [] op = "append_order_note" ->
                          append_order_note(ResolvedId, <<"n">>, ok)
                   [] op = "_resolve_order_id_from_name" ->
                          _resolve_order_id_from_name(<<"#", "1">>,
                              IF ok THEN "found" ELSE "failed", "none", ResolvedId)
        IN  /\ calls' = Append(calls, [op |-> op, raised |-> r.raised])
            /\ http' = http \o r.requests
    /\ UNCHANGED <<env, upload_env, sync_ticket_id, zd_ticket, zd_comments,
                   sync_pc, sync_ticket, sync_candidates, sync_order_id,
                   final_note_parts, out, sync_error>>
    /\ UNCHANGED outsideSync

\* ------------------------------------------------------------------------
\* Part V - the request helpers, and the order-history note
\* ------------------------------------------------------------------------

\* Most attempts RETRY_MAX allows in the model.
MaxRetryMax == 3

\* RETRY_BASE_DELAY, 0.8 s, in tenths of a second.
RETRY_BASE_DELAY == 8

\* Line 56: the statuses after which the request is sent again.
RetryableStatuses == {429, 500, 502, 503, 504}

\* The statuses a response can have.
Statuses == {200, 399, 400, 404, 501} \cup RetryableStatuses

\* The Retry-After header of a response: none, a number of seconds, a number
\* below zero, or a text that is no number.
RetryAfterHeaders == {<<>>, <<"2">>, <<"-", "1">>, <<"s", "o", "o", "n">>}

DigitOf(ch) ==
    CHOOSE d \in 0..9 : <<"0", "1", "2", "3", "4", "5", "6", "7", "8", "9">>[d + 1] = ch

RECURSIVE DecimalValue(_)
DecimalValue(digits) ==
    IF digits = <<>> THEN 0
    ELSE 10 * DecimalValue(SubSeq(digits, 1, Len(digits) - 1)) + DigitOf(digits[Len(digits)])

\* float(text) on a whole number with or without a sign: whether it parses
\* (ValueError otherwise), and its value in tenths.
Unsigned(text) ==
    IF text # <<>> /\ Head(text) \in {"+", "-"} THEN Tail(text) ELSE text
FloatParses(text) == IsDigits(Unsigned(text))
FloatTenths(text) ==
    (IF Head(text) = "-" THEN -10 ELSE 10) * DecimalValue(Unsigned(text))

RECURSIVE PowerOfTwo(_)
PowerOfTwo(n) == IF n = 0 THEN 1 ELSE 2 * PowerOfTwo(n - 1)

\* Lines 57-64: the wait before the next attempt, in tenths of a second.
WaitOf(retry_after, tries) ==
    IF retry_after # <<>> /\ FloatParses(retry_after)
    THEN FloatTenths(retry_after)
    ELSE RETRY_BASE_DELAY * PowerOfTwo(tries - 1)

\* time.sleep raises ValueError on a length below zero.
SleepRaises(wait) == wait < 0

\* The state when _request_with_retries is called.
RetryStart(retry_max) ==
    /\ RETRY_MAX = retry_max
    /\ retry_pc = "loop"
    /\ attempt = 1
    /\ received = <<>>
    /\ slept = <<>>
    /\ returned = 0

\* Lines 52-70: one pass of the loop of _request_with_retries: the request
\* is sent; a response below 400 is returned; after a retryable one the
\* function sleeps and, when this was the last attempt, returns it; any
\* other response is returned.
SendWithRetries ==
    /\ retry_pc = "loop"
    /\ \E status \in Statuses :
        \E retry_after \in IF status \in RetryableStatuses THEN RetryAfterHeaders ELSE {<<>>} :
            /\ received' = Append(received, [status |-> status, retry_after |-> retry_after])
            /\ IF status < 400 \/ status \notin RetryableStatuses
               THEN /\ retry_pc' = "returned"
                    /\ returned' = Len(received) + 1
                    /\ UNCHANGED <<attempt, slept>>
               ELSE IF SleepRaises(WaitOf(retry_after, attempt))
               THEN /\ retry_pc' = "raised"
                    /\ UNCHANGED <<attempt, slept, returned>>
               ELSE /\ slept' = Append(slept, WaitOf(retry_after, attempt))
                    /\ IF attempt = RETRY_MAX
                       THEN /\ retry_pc' = "returned"
                            /\ returned' = Len(received) + 1
                            /\ UNCHANGED attempt
                       ELSE /\ attempt' = attempt + 1
                            /\ UNCHANGED <<retry_pc, returned>>
    /\ UNCHANGED RETRY_MAX
    /\ UNCHANGED outsideRetry

\* copy_ops_reason.py, lines 24-25.
MAX_RETRIES == 3
BACKOFF_MULTIPLIER == 2

\* The outcome of one HTTP call of the propagation pass: a response with a
\* status and a Retry-After header, or a RequestException.
ZdResponse(status, retry_after) ==
    [exception |-> FALSE, status |-> status, retry_after |-> retry_after]
ZdException == [exception |-> TRUE, status |-> 0, retry_after |-> <<>>]
ZdOutcomes ==
    {ZdResponse(200, <<>>), ZdResponse(404, <<>>), ZdResponse(500, <<>>), ZdException}
        \cup {ZdResponse(429, retry_after) : retry_after \in RetryAfterHeaders}

\* int(resp.headers.get("Retry-After", 60)): whether it parses (ValueError
\* otherwise) and its value, on whole numbers with or without a sign.
RetryAfterParses(retry_after) == retry_after = <<>> \/ IsDigits(Unsigned(retry_after))
RetryAfterSeconds(retry_after) ==
    IF retry_after = <<>> THEN 60
    ELSE (IF Head(retry_after) = "-" THEN -1 ELSE 1) * DecimalValue(Unsigned(retry_after))

RECURSIVE Power(_, _)
Power(base, n) == IF n = 0 THEN 1 ELSE base * Power(base, n - 1)

\* What the function returns on success and on failure.
ZdSuccess(method) == IF method = "GET" THEN "json" ELSE "True"
ZdFailure(method) == IF method = "GET" THEN "None" ELSE "False"

\* The state when zendesk_get_with_retry or zendesk_put_with_retry is called.
ZdStart(method) ==
    /\ zd_method = method
    /\ zd_pc = "loop"
    /\ zd_attempt = 0
    /\ zd_received = <<>>
    /\ zd_slept = <<>>
    /\ zd_result = ""

\* The attempt that follows, or the return after the loop (lines 64, 93).
ZdContinue ==
    IF zd_attempt + 1 < MAX_RETRIES
    THEN /\ zd_attempt' = zd_attempt + 1
         /\ UNCHANGED <<zd_pc, zd_result>>
    ELSE /\ zd_pc' = "returned"
         /\ zd_result' = ZdFailure(zd_method)
         /\ UNCHANGED zd_attempt

\* Lines 39-64 and 68-93: one pass of the loop.  A 200 returns the success
\* value; a 429 sleeps for Retry-After (60 s without the header) and goes
\* on; any other status and a RequestException sleep BACKOFF_MULTIPLIER **
\* attempt and go on, or return the failure value on the last attempt.
\* int() on the header and time.sleep on a length below zero raise
\* ValueError, which no except clause takes.
ZdAttempt ==
    /\ zd_pc = "loop"
    /\ \E outcome \in ZdOutcomes :
        /\ zd_received' = Append(zd_received, outcome)
        /\ IF ~outcome.exception /\ outcome.status = 200
           THEN /\ zd_pc' = "returned"
                /\ zd_result' = ZdSuccess(zd_method)
                /\ UNCHANGED <<zd_attempt, zd_slept>>
           ELSE IF ~outcome.exception /\ outcome.status = 429
           THEN IF ~RetryAfterParses(outcome.retry_after)
                   \/ SleepRaises(RetryAfterSeconds(outcome.retry_after))
                THEN /\ zd_pc' = "raised"
                     /\ UNCHANGED <<zd_attempt, zd_slept, zd_result>>
                ELSE /\ zd_slept' = Append(zd_slept, RetryAfterSeconds(outcome.retry_after))
                     /\ ZdContinue
           ELSE IF zd_attempt < MAX_RETRIES - 1
           THEN /\ zd_slept' = Append(zd_slept, Power(BACKOFF_MULTIPLIER, zd_attempt))
                /\ ZdContinue
           ELSE /\ zd_pc' = "returned"
                /\ zd_result' = ZdFailure(zd_method)
                /\ UNCHANGED <<zd_attempt, zd_slept>>
    /\ UNCHANGED zd_method
    /\ UNCHANGED outsideZd

\* ------------------------------------------------------------------------
\* The order-history note (src/shopify_to_zendesk.py)
\* ------------------------------------------------------------------------

\* The script runs from top to bottom once; each action below is one of its
\* sections, from the request the section sends to the exit or the next
\* section.  An exception no except clause takes ends the interpreter with
\* exit status 1.

MaxOrderPages == 2

\* Lines 20-25: the variables read, the five credentials first.
CredentialNames ==
    <<"SHOPIFY_SHOP_DOMAIN", "SHOPIFY_ACCESS_TOKEN", "ZENDESK_EMAIL",
      "ZENDESK_API_TOKEN", "ZENDESK_DOMAIN">>
EnvNames == {CredentialNames[n] : n \in 1..Len(CredentialNames)} \cup {"TICKET_ID"}

\* Lines 7-11: the stripped value, <<>> (None) when unset or blank.
get_env_var(name) ==
    IF ~oh_env[name].set \/ Strip(oh_env[name].value) = <<>>
    THEN <<>>
    ELSE Strip(oh_env[name].value)

\* Lines 28-35.
missing == SelectSeq(CredentialNames, LAMBDA name : get_env_var(name) = <<>>)

\* Line 58: the channels served.
ChannelAny(channel) == TRUE
ChannelSupported(channel) == channel \in {"web", "email", "whatsapp"}

\* r"\binfo\b" under re.IGNORECASE.
InfoWord ==
    <<WordBoundary, AnyCase("i", "I"), AnyCase("n", "N"), AnyCase("f", "F"),
      AnyCase("o", "O"), WordBoundary>>

\* A comment of the ticket; body_null: the body is JSON null.
Comment(public, body) == [public |-> public, body |-> body, body_null |-> FALSE]
NullBody(public) == [public |-> public, body |-> <<>>, body_null |-> TRUE]

\* Lines 72-75: any() over the comments in order: "yes" at the first
\* non-public comment whose body has the word, "no" when there is none,
\* "raised" when re.search meets a body of None first (TypeError).
RECURSIVE TriggerFrom(_, _)
TriggerFrom(comments, n) ==
    IF n > Len(comments)
    THEN "no"
    ELSE IF comments[n].public
    THEN TriggerFrom(comments, n + 1)
    ELSE IF comments[n].body_null
    THEN "raised"
    ELSE IF Search(InfoWord, 1, Len(InfoWord), comments[n].body) # <<>>
    THEN "yes"
    ELSE TriggerFrom(comments, n + 1)

trigger_found(comments) == TriggerFrom(comments, 1)

\* Lines 13-17: the digits of the phone, "" for None or "".
normalize_phone(phone) == SelectSeq(phone, LAMBDA c : c \in DigitChars)

\* Lines 129-131: the orders of the requester's phone when there is one.
FilterByPhone(orders, end_user_phone) ==
    IF end_user_phone # <<>>
    THEN SelectSeq(orders, LAMBDA o :
             normalize_phone(o.phone) = normalize_phone(end_user_phone))
    ELSE orders

\* Lines 138-159: what the note says: the requester's email and phone, the
\* number of orders and the first five of them.
NoteOf(user, orders) ==
    [email |-> user.email, phone |-> user.phone, number_of_orders |-> Len(orders),
     listed |-> SubSeq(orders, 1, IF Len(orders) < 5 THEN Len(orders) ELSE 5)]

\* The answers of the platforms the model draws from.
Channels == {"web", "email", "whatsapp", "api", "Email"}
TicketAnswers ==
    [via : {"dict"}, channel : Channels, requester_id : {0, 7}]
        \cup {[via |-> "missing", channel |-> "", requester_id |-> 7],
              [via |-> "null", channel |-> "", requester_id |-> 7]}
CommentAnswers ==
    {<<>>,
     <<Comment(TRUE, <<"i", "n", "f", "o">>)>>,
     <<Comment(FALSE, <<"i", "n", "f", "o", "r", "m">>)>>,
     <<Comment(FALSE, <<"I", "N", "F", "O", ".">>)>>,
     <<Comment(TRUE, <<"i", "n", "f", "o">>), Comment(FALSE, <<"a", " ", "I", "n", "f", "o">>)>>,
     <<NullBody(FALSE), Comment(FALSE, <<"i", "n", "f", "o">>)>>,
     <<Comment(FALSE, <<"i", "n", "f", "o">>), NullBody(FALSE)>>}
UserAnswers ==
    [email : {<<>>, <<"a", "@", "b">>}, phone : {<<>>, <<"5", "5">>, <<"+">>}]
Order(phone) == [phone |-> phone]
OrderAnswers ==
    {<<>>,
     <<Order(<<"5", "5">>)>>,
     <<Order(<<"5", "-", "5">>), Order(<<"6">>)>>,
     <<Order(<<"5", "5">>), Order(<<>>), Order(<<"5", "5">>)>>}
LinkHeaders == [rel_next : BOOLEAN, page_info : {<<>>, <<"p">>}]

HttpRequest(method, resource, ok) == [method |-> method, resource |-> resource, ok |-> ok]

\* sys.exit(status), or the end of the script (status 0).
Exit(status) == oh_pc' = "exit" /\ oh_exit' = status

\* The start of the script with the environment given.
HistoryStart(environment) ==
    /\ oh_env = environment /\ oh_pc = "validate" /\ oh_exit = -1
    /\ oh_ticket = [via |-> "missing", channel |-> "", requester_id |-> 0]
    /\ oh_comments = <<>>
    /\ oh_user = [email |-> <<>>, phone |-> <<>>] /\ oh_orders = <<>>
    /\ oh_pages = 0 /\ oh_requests = <<>> /\ oh_note = <<>>

\* Lines 27-41.
Validate ==
    /\ oh_pc = "validate"
    /\ IF missing # <<>> \/ get_env_var("TICKET_ID") = <<>>
       THEN Exit(1)
       ELSE oh_pc' = "ticket" /\ UNCHANGED oh_exit
    /\ UNCHANGED <<oh_env, oh_ticket, oh_comments, oh_user, oh_orders, oh_pages,
                   oh_requests, oh_note>>
    /\ UNCHANGED outsideHistory

\* Lines 46-60: the ticket and its channel.  ticket.get("via", {}) is None for
\* a via of null, and None.get raises AttributeError.
FetchTicket ==
    /\ oh_pc = "ticket"
    /\ \E ok \in BOOLEAN, answer \in TicketAnswers :
        /\ oh_requests' = Append(oh_requests, HttpRequest("GET", "ticket", ok))
        /\ IF ~ok
           THEN Exit(1) /\ UNCHANGED oh_ticket
           ELSE /\ oh_ticket' = answer
                /\ IF answer.via = "null"
                   THEN Exit(1)
                   ELSE IF answer.via = "missing" \/ ~ChannelSupported(answer.channel)
                   THEN Exit(0)
                   ELSE oh_pc' = "comments" /\ UNCHANGED oh_exit
    /\ UNCHANGED <<oh_env, oh_comments, oh_user, oh_orders, oh_pages, oh_note>>
    /\ UNCHANGED outsideHistory

\* Lines 62-84: the comments, the trigger and the requester id.
FetchComments ==
    /\ oh_pc = "comments"
    /\ \E ok \in BOOLEAN, answer \in CommentAnswers :
        /\ oh_requests' = Append(oh_requests, HttpRequest("GET", "comments", ok))
        /\ IF ~ok
           THEN Exit(1) /\ UNCHANGED oh_comments
           ELSE /\ oh_comments' = answer
                /\ IF trigger_found(answer) = "raised"
                   THEN Exit(1)
                   ELSE IF trigger_found(answer) = "no"
                   THEN Exit(0)
                   ELSE IF oh_ticket.requester_id = 0
                   THEN Exit(1)
                   ELSE oh_pc' = "requester" /\ UNCHANGED oh_exit
    /\ UNCHANGED <<oh_env, oh_ticket, oh_user, oh_orders, oh_pages, oh_note>>
    /\ UNCHANGED outsideHistory

\* Lines 86-96.
FetchRequester ==
    /\ oh_pc = "requester"
    /\ \E ok \in BOOLEAN, answer \in UserAnswers :
        /\ oh_requests' = Append(oh_requests, HttpRequest("GET", "requester", ok))
        /\ IF ~ok
           THEN Exit(1) /\ UNCHANGED oh_user
           ELSE oh_user' = answer /\ oh_pc' = "orders" /\ UNCHANGED oh_exit
    /\ UNCHANGED <<oh_env, oh_ticket, oh_comments, oh_orders, oh_pages, oh_note>>
    /\ UNCHANGED outsideHistory

\* Lines 111-135: one turn of the loop over the pages of orders; after the
\* last page the orders are filtered by phone.  The last page the model
\* fetches has no next page.
FetchOrders ==
    /\ oh_pc = "orders"
    /\ \E ok \in BOOLEAN, answer \in OrderAnswers, link_header \in LinkHeaders :
        /\ oh_pages + 1 = MaxOrderPages
               => ~(link_header.rel_next /\ link_header.page_info # <<>>)
        /\ oh_requests' = Append(oh_requests, HttpRequest("GET", "orders", ok))
        /\ oh_pages' = oh_pages + 1
        /\ IF ~ok
           THEN Exit(1) /\ UNCHANGED oh_orders
           ELSE IF link_header.rel_next /\ link_header.page_info # <<>>
           THEN /\ oh_orders' = oh_orders \o answer
                /\ UNCHANGED <<oh_pc, oh_exit>>
           ELSE /\ oh_orders' = FilterByPhone(oh_orders \o answer, oh_user.phone)
                /\ oh_pc' = "write" /\ UNCHANGED oh_exit
    /\ UNCHANGED <<oh_env, oh_ticket, oh_comments, oh_user, oh_note>>
    /\ UNCHANGED outsideHistory

\* Lines 137-177: the note and its PUT.
UpdateZendesk ==
    /\ oh_pc = "write"
    /\ \E ok \in BOOLEAN :
        /\ oh_note' = <<NoteOf(oh_user, oh_orders)>>
        /\ oh_requests' = Append(oh_requests, HttpRequest("PUT", "ticket", ok))
        /\ Exit(IF ok THEN 0 ELSE 1)
    /\ UNCHANGED <<oh_env, oh_ticket, oh_comments, oh_user, oh_orders, oh_pages>>
    /\ UNCHANGED outsideHistory

HistoryNext ==
    \/ Validate
    \/ FetchTicket
    \/ FetchComments
    \/ FetchRequester
    \/ FetchOrders
    \/ UpdateZendesk

\* ------------------------------------------------------------------------
\* Specifications
\* ------------------------------------------------------------------------

\* A pass that is not run.
MergeOff ==
    /\ tickets = <<>> /\ pc = "off" /\ i = 0 /\ group_keys = <<>>
    /\ tickets_by_group = <<>> /\ k = 0 /\ j = 0 /\ merge_calls = <<>>
    /\ merged_summary = <<>> /\ org_lookups = <<>> /\ vetoed = {}

PropOff ==
    /\ field = [id \in PropIds |-> ""] /\ field0 = [id \in PropIds |-> ""]
    /\ notes = [id \in PropIds |-> <<>>] /\ view_tickets = <<>>
    /\ prop_pc = "off" /\ prop_i = 0 /\ parent_mapping = EmptyDict
    /\ parent_ticket_cache = EmptyDict /\ user_cache = EmptyDict
    /\ success_count = 0 /\ no_parent_count = 0 /\ missing_field_count = 0
    /\ error_count = 0 /\ reads = <<>> /\ writes = <<>> /\ run = 0
    /\ resolver_calls = <<>>

UserOffWith(counts) ==
    /\ users = <<>> /\ solved = <<>> /\ DRY_RUN = TRUE /\ max_merges = MAX_MERGES
    /\ user_pc = "off"
    /\ preflight_ok = "pending" /\ requester_counts = counts
    /\ requester_ids = {} /\ visited = {} /\ req_by_id = {} /\ planned = <<>>
    /\ plan_i = 0 /\ merged_users = 0 /\ puts = <<>> /\ merge_log = <<>>

UserOff == UserOffWith(EmptyDict)

PickOff == candidates = <<>> /\ picked = 0

\* The note sync is not run.
SyncOff ==
    /\ env = [name \in ConfigNames |-> Unset] /\ upload_env = <<>>
    /\ sync_ticket_id = <<>> /\ zd_ticket = NoTicket /\ zd_comments = <<>>
    /\ sync_pc = "off" /\ sync_ticket = NoTicket /\ sync_candidates = NoCandidates
    /\ sync_order_id = <<>> /\ final_note_parts = <<>> /\ http = <<>> /\ out = <<>>
    /\ sync_error = "" /\ calls = <<>>

\* _request_with_retries is not called.
RetryOff ==
    /\ RETRY_MAX = 1 /\ retry_pc = "off" /\ attempt = 0 /\ received = <<>>
    /\ slept = <<>> /\ returned = 0

\* Neither helper of copy_ops_reason.py is called on its own.
ZdOff ==
    /\ zd_method = "" /\ zd_pc = "off" /\ zd_attempt = 0 /\ zd_received = <<>>
    /\ zd_slept = <<>> /\ zd_result = ""

\* shopify_to_zendesk.py is not run.
HistoryOff ==
    /\ oh_env = <<>> /\ oh_pc = "off" /\ oh_exit = -1
    /\ oh_ticket = [channel |-> <<>>, requester_id |-> 0] /\ oh_comments = <<>>
    /\ oh_user = [email |-> <<>>, phone |-> <<>>] /\ oh_orders = <<>>
    /\ oh_pages = 0 /\ oh_requests = <<>> /\ oh_note = <<>>

\* The batch of the propagation pass is given, not fetched.
ViewOff == view_pages = <<>> /\ view_url = 0 /\ view_data = <<>>

HelpersOff == RetryOff /\ ZdOff /\ HistoryOff /\ ViewOff

\* Batches for the grouping: every combination of channel, requester and
\* subject that is not excluded, created at the same time, and on top of
\* them closed tickets, tickets of an excluded channel or organization, a
\* ticket without a via, a channel name in capitals, and two tickets created
\* earlier.
GroupShapes ==
    [via_channel : {"email", "side_conversation"}, requester_id : {9, 10},
     subject : {<<"X">>, <<" ", "x", "\n">>}, created_at : {Stamp(1, UtcZ)},
     status : {"open"}]
    \cup
    [via_channel : {"email", "side_conversation"}, requester_id : {9},
     subject : {<<"X">>}, created_at : {Stamp(1, UtcZ)}, status : {"closed"}]
    \cup
    [via_channel : {"WhatsApp", "any_channel", NoVia, "Email"},
     requester_id : {9}, subject : {<<"X">>},
     created_at : {Stamp(1, UtcZ)}, status : {"open"}]
    \cup
    [via_channel : {"email", "side_conversation"}, requester_id : {11},
     subject : {<<"X">>}, created_at : {Stamp(1, UtcZ)}, status : {"open"}]
    \cup
    [via_channel : {"email", "side_conversation"}, requester_id : {9},
     subject : {<<"X">>}, created_at : {Stamp(0, UtcZ)}, status : {"open"}]

\* Batches for the sort: tickets of one requester and channel, with every
\* combination of subject, created_at text and status.
SortShapes ==
    [via_channel : {"email"}, requester_id : {9}, subject : {<<"X">>, <<"Y", " ">>},
     created_at : {Stamp(1, UtcZ), Stamp(2, UtcZ), Stamp(3, Plus(2)), Stamp(3, Plus(4)),
                   NoCreatedAt, Garbage},
     status : {"open", "Closed"}]

\* Batches long enough for a group of three tickets and a group of two: one
\* requester, two subjects, open and closed tickets, two creation times and
\* one side-conversation ticket.
LongShapes ==
    [via_channel : {"email"}, requester_id : {9}, subject : {<<"X">>, <<"y">>},
     created_at : {Stamp(1, UtcZ)}, status : {"open", "closed"}]
    \cup
    [via_channel : {"email", "side_conversation"}, requester_id : {9},
     subject : {<<"X">>}, created_at : {Stamp(0, UtcZ)}, status : {"open"}]

MergeInit(shapes, max) ==
    \E n \in 0..max : \E f \in [1..n -> shapes] :
        MergeStart([m \in 1..n |-> WithId(f[m], m)])

InitMerge == MergeInit(GroupShapes, MaxTickets) /\ PropOff /\ UserOff /\ PickOff /\ SyncOff /\ HelpersOff
InitSort == MergeInit(SortShapes, MaxTickets) /\ PropOff /\ UserOff /\ PickOff /\ SyncOff /\ HelpersOff
InitLong == MergeInit(LongShapes, MaxLongBatch) /\ PropOff /\ UserOff /\ PickOff /\ SyncOff /\ HelpersOff

\* The view lists tickets whose escalation reason is empty (VIEW_ID), each
\* once.
Reasons == {"", "billing"}

PropInit(link_shapes) ==
    \E f0 \in [PropIds -> Reasons] : \E n \in 0..MaxView :
        \E ids \in [1..n -> PropIds] : \E links \in [1..n -> link_shapes] :
            /\ \A a, b \in 1..n : ids[a] = ids[b] => a = b
            /\ \A a \in 1..n : f0[ids[a]] = ""
            /\ PropStart(f0, [m \in 1..n |-> ViewTicket(ids[m], links[m])])

InitProp == MergeOff /\ UserOff /\ PickOff /\ SyncOff /\ HelpersOff /\ PropInit(LinkShapes)

\* Tickets without a parent or with a via source among the first two
\* tickets.
FewLinkShapes ==
    {l \in LinkShapes : l.audit_source = 0 /\ l.reverse_source = 0 /\ l.via_source <= 2}

InitPropFew == MergeOff /\ UserOff /\ PickOff /\ SyncOff /\ HelpersOff /\ PropInit(FewLinkShapes)

\* Every state of the via descriptor, of the audits and of the reverse
\* search for one ticket: each names no ticket or any ticket of the
\* platform, the ticket itself included.
AllLinkShapes ==
    [via_source : 0..NumTickets, audit_source : 0..NumTickets,
     reverse_source : 0..NumTickets]

NoLink == [via_source |-> 0, audit_source |-> 0, reverse_source |-> 0]

\* A batch whose first ticket has any of these links, the tickets after it
\* having none.
InitResolve ==
    /\ MergeOff /\ UserOff /\ PickOff /\ SyncOff /\ HelpersOff
    /\ \E f0 \in [PropIds -> Reasons] : \E n \in 1..MaxView :
         \E ids \in [1..n -> PropIds] : \E link \in AllLinkShapes :
            /\ \A a, b \in 1..n : ids[a] = ids[b] => a = b
            /\ \A a \in 1..n : f0[ids[a]] = ""
            /\ PropStart(f0, [m \in 1..n |-> ViewTicket(ids[m], IF m = 1 THEN link ELSE NoLink)])

\* The users of the platform: an end-user with an email only; one with the
\* same email in capitals and with blanks, a national phone number and a
\* verified profile; one with that phone written with 00 and a created_at
\* that does not parse; an agent with the email and the phone; and an
\* end-user with another email and phone whose identities carry the email
\* and the phone of the others.
UserShapes ==
    {[role |-> "end-user", email |-> <<"x">>, phone |-> <<>>, verified |-> FALSE,
      created_at |-> Stamp(1, UtcZ), identities |-> <<>>],
     [role |-> "End-User", email |-> <<" ", "X">>, phone |-> PhoneLocal,
      verified |-> TRUE, created_at |-> Stamp(2, UtcZ), identities |-> <<>>],
     [role |-> "end-user", email |-> <<>>, phone |-> PhoneZeros, verified |-> FALSE,
      created_at |-> Garbage, identities |-> <<>>],
     [role |-> "agent", email |-> <<"x">>, phone |-> PhoneSpaced, verified |-> TRUE,
      created_at |-> Stamp(1, UtcZ), identities |-> <<>>],
     [role |-> "end-user", email |-> <<"y">>, phone |-> PhoneOther, verified |-> FALSE,
      created_at |-> Stamp(1, UtcZ),
      identities |-> <<[type |-> "email", value |-> <<"X">>],
                       [type |-> "phone_number", value |-> PhoneSpaced]>>]}

UserWithId(shape, n) ==
    [id |-> n, role |-> shape.role, email |-> shape.email, phone |-> shape.phone,
     verified |-> shape.verified, created_at |-> shape.created_at,
     identities |-> shape.identities]

\* The requesters of the solved tickets: none (0), the first user or the
\* second.
SolvedRequesters == {0, 1, 2}

\* DRY_RUN in the environment: not set, "True", "false", or " true".
DryRunSettings ==
    {Unset, EnvText(<<"T", "r", "u", "e">>), EnvText(<<"f", "a", "l", "s", "e">>),
     EnvText(<<" ", "t", "r", "u", "e">>)}

UserInitWith(shapes, limits) ==
    \E f \in [UserIds -> shapes] : \E n \in 0..MaxSolved :
        \E t \in [1..n -> SolvedRequesters] : \E setting \in DryRunSettings :
            \E limit \in limits :
                UserStartWith([id \in UserIds |-> UserWithId(f[id], id)], t,
                              DryRunOf(setting), limit)

UserInit(shapes) == UserInitWith(shapes, {MAX_MERGES})

InitUser == MergeOff /\ PropOff /\ PickOff /\ SyncOff /\ HelpersOff /\ UserInit(UserShapes)

\* The end-users without identities.
FewUserShapes == {sh \in UserShapes : IsEndUser(sh) /\ sh.identities = <<>>}

InitUserFew == MergeOff /\ PropOff /\ PickOff /\ SyncOff /\ HelpersOff /\ UserInit(FewUserShapes)

\* MAX_MERGES in the environment: int() takes any whole number.
Limits == {-1, 0, 2}

InitUserLimit ==
    MergeOff /\ PropOff /\ PickOff /\ SyncOff /\ HelpersOff /\ UserInitWith(FewUserShapes, Limits)

\* The candidates of pick_survivor: every combination of a count of solved
\* tickets (none or two), a verified flag and a created_at among two
\* instants, one of them written with two offsets, and a text that does not
\* parse.
CandidateShapes ==
    [count : {0, 2}, verified : BOOLEAN,
     created_at : {Stamp(1, UtcZ), Stamp(2, UtcZ), Stamp(3, Plus(2)), Garbage}]

InitPick ==
    /\ MergeOff /\ PropOff /\ SyncOff /\ HelpersOff
    /\ \E n \in 1..MaxCandidates : \E f \in [1..n -> CandidateShapes] :
        /\ candidates = [m \in 1..n |-> [id |-> m, verified |-> f[m].verified,
                                          created_at |-> f[m].created_at]]
        /\ picked = 0
        /\ UserOffWith([m \in {o \in 1..n : f[o].count > 0} |-> f[m].count])

\* The tickets of the helpdesk platform the note sync is run on (subject /
\* description):
\*   Hello
\*   Need update for order #54321 / Please add a note
\*   Re: #7 and #12 / d
\*   Hello / order id: 1234567890
\*   Refund / Order Name: AB-12
\*   Hi, tags vip and A266626
\*   Hi, custom fields None and 12345678901
\*   # / #12
SyncTickets ==
    {[subject |-> <<"H", "e", "l", "l", "o">>,
      description |-> <<>>,
      tags |-> <<>>,
      custom_fields |-> <<>>],
     [subject |-> <<"N", "e", "e", "d", " ", "u", "p", "d", "a", "t", "e", " ", "f", "o", "r", " ", "o", "r", "d", "e", "r", " ", "#", "5", "4", "3", "2", "1">>,
      description |-> <<"P", "l", "e", "a", "s", "e", " ", "a", "d", "d", " ", "a", " ", "n", "o", "t", "e">>,
      tags |-> <<>>,
      custom_fields |-> <<>>],
     [subject |-> <<"R", "e", ":", " ", "#", "7", " ", "a", "n", "d", " ", "#", "1", "2">>,
      description |-> <<"d">>,
      tags |-> <<>>,
      custom_fields |-> <<>>],
     [subject |-> <<"H", "e", "l", "l", "o">>,
      description |-> <<"o", "r", "d", "e", "r", " ", "i", "d", ":", " ", "1", "2", "3", "4", "5", "6", "7", "8", "9", "0">>,
      tags |-> <<>>,
      custom_fields |-> <<>>],
     [subject |-> <<"R", "e", "f", "u", "n", "d">>,
      description |-> <<"O", "r", "d", "e", "r", " ", "N", "a", "m", "e", ":", " ", "A", "B", "-", "1", "2">>,
      tags |-> <<>>,
      custom_fields |-> <<>>],
     [subject |-> <<"H", "i">>,
      description |-> <<>>,
      tags |-> <<<<"v", "i", "p">>, <<"A", "2", "6", "6", "6", "2", "6">>>>,
      custom_fields |-> <<>>],
     [subject |-> <<"H", "i">>,
      description |-> <<>>,
      tags |-> <<>>,
      custom_fields |-> <<<<"N", "o", "n", "e">>, <<"1", "2", "3", "4", "5", "6", "7", "8", "9", "0", "1">>>>],
     [subject |-> <<"#">>,
      description |-> <<"#", "1", "2">>,
      tags |-> <<>>,
      custom_fields |-> <<>>]}

\* Their comments:
\*   no comment
\*   one comment: see #777
\*   a comment with the attachment a.png, then: order id 9876543210
\*   a comment whose attachment has no name and no content_url
SyncComments ==
    {<<>>,
     <<[body |-> <<"s", "e", "e", " ", "#", "7", "7", "7">>, plain_body |-> <<"s", "e", "e", " ", "#", "7", "7", "7">>,
       attachments |-> <<>>]>>,
     <<[body |-> <<"f", "i", "l", "e">>, plain_body |-> <<>>,
       attachments |-> <<[file_name |-> <<"a", ".", "p", "n", "g">>, content_url |-> <<"u">>]>>],
      [body |-> <<"o", "r", "d", "e", "r", " ", "i", "d", " ", "9", "8", "7", "6", "5", "4", "3", "2", "1", "0">>, plain_body |-> <<>>,
       attachments |-> <<>>]>>,
     <<[body |-> <<"x">>, plain_body |-> <<>>,
       attachments |-> <<[file_name |-> <<>>, content_url |-> <<>>]>>]>>}

\* The ticket id on the command line: 42, A266626, abc.
TicketIdArgs == {<<"4", "2">>, <<"A", "2", "6", "6", "6", "2", "6">>, <<"a", "b", "c">>}

\* UPLOAD_ZENDESK_ATTACHMENTS: not set, " Yes", "0".
UploadEnvs == {<<>>, <<" ", "Y", "e", "s">>, <<"0">>}

AllSet == [name \in ConfigNames |-> EnvText(<<"v">>)]

\* The configuration is complete, or SHOPIFY_TOKEN is empty.
SyncEnvs == {AllSet, [AllSet EXCEPT !["SHOPIFY_TOKEN"] = EnvText(<<>>)]}

\* A run of sync_note.
InitSync ==
    /\ MergeOff /\ PropOff /\ UserOff /\ PickOff /\ HelpersOff
    /\ \E environment \in SyncEnvs : \E upload \in UploadEnvs :
         \E ticket_id \in TicketIdArgs : \E ticket_on_platform \in SyncTickets :
            \E comments_on_platform \in SyncComments :
                SyncStart(environment, upload, ticket_id, ticket_on_platform,
                          comments_on_platform)

\* The functions of script.py called on their own, each variable of the
\* configuration being unset, empty or set.
InitConfig ==
    /\ MergeOff /\ PropOff /\ UserOff /\ PickOff /\ HelpersOff
    /\ \E environment \in [ConfigNames -> {Unset, EnvText(<<>>), EnvText(<<"v">>)}] :
         /\ SyncStart(environment, <<>>, <<"4", "2">>, NoTicket, <<>>)

\* A call of _request_with_retries under each RETRY_MAX of one or more.
InitRetry ==
    /\ MergeOff /\ PropOff /\ UserOff /\ PickOff /\ SyncOff /\ ZdOff /\ HistoryOff /\ ViewOff
    /\ \E retry_max \in 1..MaxRetryMax : RetryStart(retry_max)

SpecRetry == InitRetry /\ [][SendWithRetries]_vars

\* A call of zendesk_get_with_retry or of zendesk_put_with_retry.
InitZd ==
    /\ MergeOff /\ PropOff /\ UserOff /\ PickOff /\ SyncOff /\ RetryOff /\ HistoryOff /\ ViewOff
    /\ \E method \in {"GET", "PUT"} : ZdStart(method)

SpecZd == InitZd /\ [][ZdAttempt]_vars

\* The environments of the order-history note: every variable set, or one of
\* them unset or blank.
Blank == EnvText(<<" ">>)
EverySet == [name \in EnvNames |-> EnvText(<<" ", "v">>)]
Environments ==
    {EverySet} \cup {[EverySet EXCEPT ![name] = setting] :
                      name \in EnvNames, setting \in {Unset, Blank}}

InitHistory ==
    /\ MergeOff /\ PropOff /\ UserOff /\ PickOff /\ SyncOff /\ RetryOff /\ ZdOff
    /\ ViewOff
    /\ \E environment \in Environments : HistoryStart(environment)

SpecHistory == InitHistory /\ [][HistoryNext]_vars

\* The largest number of pages of the view.
MaxViewPages == 2

\* The view in pages: a batch as in PropInit, cut into pages that each name
\* the page after them, the last one naming none.
ViewInit(link_shapes) ==
    \E f0 \in [PropIds -> Reasons] : \E n \in 0..MaxView : \E p \in 1..MaxViewPages :
        \E ids \in [1..n -> PropIds] : \E links \in [1..n -> link_shapes] :
            \E page_of \in [1..n -> 1..p] :
                /\ \A a, b \in 1..n : ids[a] = ids[b] => a = b
                /\ \A a \in 1..n : f0[ids[a]] = ""
                /\ \A a, b \in 1..n : a < b => page_of[a] <= page_of[b]
                /\ ViewStart(f0,
                       [q \in 1..p |->
                           ViewPage(SelectSeq([m \in 1..n |-> ViewTicket(ids[m], links[m])],
                                              LAMBDA t : \E m \in 1..n :
                                                  ids[m] = t.id /\ page_of[m] = q),
                                    IF q = p THEN 0 ELSE q + 1)])

InitView ==
    /\ MergeOff /\ UserOff /\ PickOff /\ SyncOff /\ RetryOff /\ ZdOff /\ HistoryOff
    /\ ViewInit(FewLinkShapes)

SpecView == InitView /\ [][ViewNext]_vars

SpecUser == InitUser /\ [][UserNext]_vars
SpecUserLimit == InitUserLimit /\ [][UserNext]_vars
SpecPick == InitPick /\ [][Pick]_vars
\* A run of the propagation pass or a run of the user merge pass.
EitherNext == PropNext \/ UserNext
SpecEither == (InitPropFew \/ InitUserFew) /\ [][EitherNext]_vars
SpecMerge == InitMerge /\ [][MergeNext]_vars
SpecSort == InitSort /\ [][MergeNext]_vars
SpecLong == InitLong /\ [][MergeNext]_vars
SpecProp == InitProp /\ [][PropNext]_vars
SpecAgain == InitProp /\ [][AgainNext]_vars
SpecResolve == InitResolve /\ [][PropNext]_vars
SpecSync == InitSync /\ [][SyncNext]_vars
SpecConfig == InitConfig /\ [][CallOperation]_vars

\* ------------------------------------------------------------------------
\* Properties of the ticket merge pass
\* ------------------------------------------------------------------------

Clusters == 1..Len(tickets_by_group)
ClusterIds(n) == {tickets_by_group[n][m].id : m \in 1..Len(tickets_by_group[n])}

\* The tickets the grouping loop has been through.
Seen == {tickets[m] : m \in 1..(IF pc = "off" THEN 0 ELSE i - 1)}

\* A ticket the exclusions of the pass remove: its channel, lowercased, is
\* whatsapp or any_channel, or its requester's organization domains include
\* moc.gov.sa.
Filtered(t) ==
    \/ ChannelOf(t) \in {"whatsapp", "any_channel"}
    \/ "moc.gov.sa" \in get_requester_org_domains(t.requester_id)

\* The groups main has sorted and decided on: those before k, and the one
\* whose merge loop is running.
Decided == {n \in Clusters : n < k \/ (n = k /\ pc = "merging")}

TicketById(id) == tickets[id]

\* C1 - partition: the buckets of tickets_by_group hold exactly the tickets
\* gone through that neither exclusion removed, each of them once, and no
\* ticket id is in two buckets (after the grouping loop: of the whole batch).
C1_Partition ==
    /\ UNION {ClusterIds(n) : n \in Clusters} = {t.id : t \in {u \in Seen : ~Filtered(u)}}
    /\ \A n \in Clusters : Cardinality(ClusterIds(n)) = Len(tickets_by_group[n])
    /\ \A a, b \in Clusters : a # b => ClusterIds(a) \cap ClusterIds(b) = {}

\* A finished run of three tickets: one in the only bucket, one left out for
\* its channel (written "WhatsApp") and one for its organization.
C1_Witness ==
    /\ pc = "done"
    /\ Len(tickets) = 3
    /\ Len(tickets_by_group) = 1
    /\ \E t \in Seen : ChannelOf(t) = "whatsapp" /\ t.via_channel # "whatsapp"
    /\ \E t \in Seen : t.requester_id = 11

\* The instant a created_at text denotes, for the texts that denote one.
HasInstant(t) == IsoParses(ReplaceZ(t.created_at))
InstantOf(t) == IsoInstant(ReplaceZ(t.created_at))

\* C2 - survivor is oldest: in every group of two tickets or more that main
\* has sorted, the target t_list[0] was created no later than any other
\* ticket of the group (compared where both created_at values are instants).
C2_SurvivorIsOldest ==
    \A n \in Decided :
        LET t_list == tickets_by_group[n]
        IN  Len(t_list) > 1 =>
                \A m \in 2..Len(t_list) :
                    (HasInstant(t_list[1]) /\ HasInstant(t_list[m]))
                        => InstantOf(t_list[1]) <= InstantOf(t_list[m])

\* The status test of the veto as the claim words it.
ClosedOrArchived(t) == LowerStr(t.status) \in {"closed", "archived"}

CallsOn(ids) ==
    {c \in 1..Len(merge_calls) :
        merge_calls[c].source \in ids \/ merge_calls[c].target \in ids}

ClaimKey(t) ==
    IF ChannelOf(t) = "side_conversation"
    THEN <<"side_conversation", Lower(Strip(t.subject))>>
    ELSE <<"other", t.requester_id, Lower(Strip(t.subject)), ChannelOf(t)>>

SameCluster(a, b) == \E n \in Clusters : a.id \in ClusterIds(n) /\ b.id \in ClusterIds(n)

\* C4 - grouping key: two tickets gone through and not excluded are in the
\* same bucket exactly when their keys are equal.
C4_GroupingKey ==
    \A a, b \in {u \in Seen : ~Filtered(u)} :
        SameCluster(a, b) <=> ClaimKey(a) = ClaimKey(b)

\* Two side-conversation tickets of different requesters in one bucket (their
\* subjects differ only in case and blanks), and an email ticket with that
\* subject in another bucket.
C4_Witness ==
    /\ pc = "done"
    /\ Len(tickets) = 3
    /\ \E a, b, c \in Seen :
        /\ a.via_channel = "side_conversation" /\ b.via_channel = "side_conversation"
        /\ a.requester_id # b.requester_id
        /\ a.subject # b.subject
        /\ c.via_channel = "email"
        /\ SameCluster(a, b) /\ ~SameCluster(a, c)
        /\ SubjectOf(c) = SubjectOf(a)

\* C5 - exclusion: no merge call has as source or as target a ticket of an
\* excluded channel or of a requester of the excluded organization.
C5_Exclusion ==
    \A c \in 1..Len(merge_calls) :
        /\ ~Filtered(TicketById(merge_calls[c].source))
        /\ ~Filtered(TicketById(merge_calls[c].target))

\* A merge was called for two email tickets of requester 9 while the batch
\* also held an email ticket with the same subject of the excluded requester.
C5_Witness ==
    /\ pc = "done"
    /\ Len(merge_calls) = 1
    /\ \E t \in Seen :
        /\ t.requester_id = 11 /\ ChannelOf(t) = "email"
        /\ SubjectOf(t) = SubjectOf(TicketById(merge_calls[1].source))
        /\ ChannelOf(TicketById(merge_calls[1].source)) = "email"

C9_FoldedOnce ==
    \A a, b \in 1..Len(merge_calls) :
        /\ a # b => merge_calls[a].source # merge_calls[b].source
        /\ merge_calls[a].target # merge_calls[b].source

\* A finished run of three merges: two tickets into one target, one of them
\* failed, and a third ticket into another target.
C9_Witness ==
    /\ pc = "done"
    /\ Len(merge_calls) = 3
    /\ merge_calls[1].target = merge_calls[2].target
    /\ merge_calls[3].target # merge_calls[1].target
    /\ ~merge_calls[2].ok
    /\ merge_calls[3].ok

\* C10 - every merge call has as target the first ticket of a group of two
\* or more and as source a later ticket of the same group, so a different
\* ticket; no ticket of a group of one is in a merge call.
C10_MergeIntoOwnSurvivor ==
    /\ \A c \in 1..Len(merge_calls) :
        \E n \in Clusters :
            LET t_list == tickets_by_group[n]
            IN  /\ Len(t_list) > 1
                /\ merge_calls[c].target = t_list[1].id
                /\ \E m \in 2..Len(t_list) : merge_calls[c].source = t_list[m].id
                /\ merge_calls[c].source # merge_calls[c].target
    /\ \A n \in Clusters :
        Len(tickets_by_group[n]) = 1 => CallsOn(ClusterIds(n)) = {}

\* A finished run with a group of two that was merged, the later ticket of
\* the batch order being the target, and a group of one.
C10_Witness ==
    /\ pc = "done"
    /\ Len(tickets_by_group) = 2
    /\ Len(merge_calls) = 1
    /\ merge_calls[1].target > merge_calls[1].source
    /\ \E n \in Clusters : Len(tickets_by_group[n]) = 1

\* C11 - organization lookups are cached per requester: in one run
\* get_requester_org_domains is called at most once for each requester id,
\* however many tickets of the batch have that requester.
C11_LookupOncePerRequester ==
    \A a, b \in 1..Len(org_lookups) :
        org_lookups[a] = org_lookups[b] => a = b

\* C15 - the run report keeps the outcomes apart: the result of a finished
\* run of the ticket merge pass (merged_summary, all that lines 147-159
\* report) tells a failed merge and a vetoed group from a run that found no
\* duplicate, so a run whose summary is empty had no failed merge call and
\* no vetoed group.
C15_OutcomesKeptApart ==
    (pc = "done" /\ merged_summary = <<>>) =>
        /\ vetoed = {}
        /\ \A c \in 1..Len(merge_calls) : merge_calls[c].ok

\* ------------------------------------------------------------------------
\* Properties of the propagation pass
\* ------------------------------------------------------------------------

\* The write the data of the start of the run plans for a child with a
\* parent: the parent's value copied on the child, or, the parent having
\* none, a note on the parent.
PlannedFrom(platform_field, w) ==
    \/ /\ w.kind = "field"
       /\ DictGet(parent_mapping, w.ticket) # 0
       /\ platform_field[DictGet(parent_mapping, w.ticket)] = w.value
       /\ w.value # ""
    \/ /\ w.kind = "note"
       /\ \E c \in DOMAIN parent_mapping : parent_mapping[c] = w.ticket
       /\ platform_field[w.ticket] = ""

\* C7 - decide, then execute: a merge is called only after the grouping loop
\* went through the whole batch, a field or note write is issued only after
\* the parent of every ticket of the batch was resolved, and every write of
\* the propagation pass is the one planned from the platform as it was
\* before the first write, whatever the earlier writes of the run did.
C7_DecideThenExecute ==
    /\ merge_calls # <<>> => (pc \in {"clusters", "merging", "done"} /\ i > Len(tickets))
    /\ writes # <<>> => prop_pc \in {"process", "done"}
    /\ prop_pc \in {"process", "done"} =>
           \A m \in 1..Len(view_tickets) :
               DictGet(parent_mapping, view_tickets[m].id)
                   = find_parent_ticket_id(view_tickets[m])
    /\ \A w \in 1..Len(writes) : PlannedFrom(field0, writes[w])

\* C8 - no read after write: every ticket read of the run returns the
\* escalation reason the ticket had when the run started.
C8_NoReadAfterWrite ==
    \A r \in 1..Len(reads) :
        (reads[r].what = "ticket" /\ reads[r].outcome = "ok")
            => reads[r].value = field0[reads[r].id]

\* The step fetched the parent of the ticket it processed and the fetch
\* failed.
FetchFailedNow ==
    /\ Len(reads') > Len(reads)
    /\ reads'[Len(reads) + 1].what = "ticket"
    /\ reads'[Len(reads) + 1].outcome # "ok"

\* The step issued one write, and this is it.
OneWriteNow == Len(writes') = Len(writes) + 1
WriteNow == writes'[Len(writes')]

C13_FailureDoesNotPropagate ==
    /\ [](((prop_pc = "done" /\ DOMAIN parent_mapping # {})
              => prop_i > Len(view_tickets)))
    /\ [][error_count' > error_count
            => (prop_pc' = "process" /\ prop_i' = prop_i + 1)]_vars

\* A finished run of two tickets: the write for the first failed, the write
\* for the second was issued after it and succeeded.
C13_Witness ==
    /\ prop_pc = "done"
    /\ Len(view_tickets) = 2
    /\ error_count = 1
    /\ Len(writes) = 2
    /\ ~writes[1].ok
    /\ writes[2].ok

\* C14 - one terminal outcome per ticket: when the run has ended, the four
\* counters (copied, note added, no parent, failed) sum to the number of
\* tickets of the batch.
C14_CountersSumToBatch ==
    prop_pc = "done" =>
        success_count + missing_field_count + no_parent_count + error_count
            = Len(view_tickets)

\* C16 - idempotence across runs: the run that follows a finished run, the
\* platform untouched in between, issues no write that takes effect (no
\* field written, no note posted).
C16_SecondRunWritesNothing ==
    run = 2 => \A w \in 1..Len(writes) : ~writes[w].ok

Orphans ==
    {m \in 1..Len(view_tickets) : find_parent_ticket_id(view_tickets[m]) = 0}

\* The write was issued for a ticket of the batch that has a parent: the
\* field of that ticket, or a note on its parent.
WriteForChild(w) ==
    \E m \in 1..Len(view_tickets) :
        /\ find_parent_ticket_id(view_tickets[m]) # 0
        /\ \/ w.kind = "field" /\ w.ticket = view_tickets[m].id
           \/ w.kind = "note" /\ w.ticket = find_parent_ticket_id(view_tickets[m])

\* The tickets with a parent were all processed: each is counted as copied,
\* as note added or as failed.
ChildrenProcessed ==
    success_count + missing_field_count + error_count
        = Len(view_tickets) - Cardinality(Orphans)

\* C21 - unresolved parent is a normal skip: every write of the run was
\* issued for a ticket that has a parent, and when the run has ended each
\* ticket without a parent is counted as no-parent, none of them as failed,
\* and each ticket with a parent was processed.
C21_NoParentIsSkip ==
    /\ \A w \in 1..Len(writes) : WriteForChild(writes[w])
    /\ prop_pc = "done" =>
           /\ no_parent_count = Cardinality(Orphans)
           /\ ChildrenProcessed

\* How many times find_parent_ticket_id was called for the ticket.
TimesResolved(id) ==
    Cardinality({c \in 1..Len(resolver_calls) : resolver_calls[c].id = id})

\* C22 - parent resolution is authoritative for the run: the parent of a
\* ticket of the batch is never resolved twice, it has been resolved exactly
\* once when the resolution loop is over, the mapping then holds what the
\* resolver gave, and every write of the run goes to a child or to a parent
\* of the stored mapping.
C22_ResolvedOnce ==
    /\ \A m \in 1..Len(view_tickets) : TimesResolved(view_tickets[m].id) <= 1
    /\ (prop_pc \in {"process", "done"} \/ (prop_pc = "resolve" /\ prop_i > Len(view_tickets)))
         => \A m \in 1..Len(view_tickets) :
               /\ TimesResolved(view_tickets[m].id) = 1
               /\ DictGet(parent_mapping, view_tickets[m].id)
                     = find_parent_ticket_id(view_tickets[m])
    /\ \A w \in 1..Len(writes) :
          \/ writes[w].kind = "field" /\ DictGet(parent_mapping, writes[w].ticket) # 0
          \/ /\ writes[w].kind = "note"
             /\ \E c \in DOMAIN parent_mapping : parent_mapping[c] = writes[w].ticket

\* A finished run of two tickets with a parent each: both were resolved in
\* the resolution loop and both were processed with a write.
C22_Witness ==
    /\ prop_pc = "done"
    /\ Len(view_tickets) = 2
    /\ Len(resolver_calls) = 2
    /\ DOMAIN parent_mapping = {view_tickets[1].id, view_tickets[2].id}
    /\ Len(writes) = 2

\* The view tickets the resolution loop has gone through.
ResolvedSoFar ==
    IF prop_pc = "resolve" THEN 1..(prop_i - 1)
    ELSE IF prop_pc \in {"process", "done"} THEN 1..Len(view_tickets)
    ELSE {}

\* C23 - self-loop rejection: whatever the via descriptor, the audits and
\* the reverse search name, the resolver does not give the ticket's own id,
\* and the mapping of the run maps no ticket to itself.
C23_NoSelfParent ==
    /\ \A m \in 1..Len(view_tickets) :
          find_parent_ticket_id(view_tickets[m]) # view_tickets[m].id
    /\ \A c \in DOMAIN parent_mapping : parent_mapping[c] # c

\* The resolution loop went through a ticket whose via descriptor names the
\* ticket itself.
C23_Witness ==
    /\ prop_pc \in {"process", "done"}
    /\ Len(view_tickets) = 1
    /\ Len(resolver_calls) = 1
    /\ view_tickets[1].via_source = view_tickets[1].id

\* A strategy succeeds when it names a ticket other than the child.
Names(source, ticket) == source # 0 /\ source # ticket.id

\* C24 - strategy precedence: for every ticket the resolution loop went
\* through, the mapping holds the via source when the via link names a
\* parent, and then no other strategy was tried; otherwise the audit source
\* when the audits name one, the reverse search not being tried; otherwise
\* the result of the reverse search; and no entry when none names a parent.
C24_StrategyPrecedence ==
    \A m \in ResolvedSoFar :
        LET t == view_tickets[m]
            parent == DictGet(parent_mapping, t.id)
            tried == resolver_calls[m].tried
        IN  /\ resolver_calls[m].id = t.id
            /\ Names(t.via_source, t) => (parent = t.via_source /\ tried = <<"via">>)
            /\ (~Names(t.via_source, t) /\ Names(t.audit_source, t))
                 => (parent = t.audit_source /\ tried = <<"via", "audit">>)
            /\ (~Names(t.via_source, t) /\ ~Names(t.audit_source, t))
                 => /\ tried = <<"via", "audit", "reverse">>
                    /\ parent = IF Names(t.reverse_source, t) THEN t.reverse_source ELSE 0

\* The via link and the reverse search name different parents, and the
\* ticket was processed with the parent of the via link.
C24_Witness ==
    /\ prop_pc = "done"
    /\ Len(view_tickets) = 1
    /\ Names(view_tickets[1].via_source, view_tickets[1])
    /\ Names(view_tickets[1].reverse_source, view_tickets[1])
    /\ view_tickets[1].via_source # view_tickets[1].reverse_source
    /\ parent_mapping[view_tickets[1].id] = view_tickets[1].via_source
    /\ Len(writes) = 1

\* No two reads of the run of this kind ask for the same id.
ReadOnce(what) ==
    \A a, b \in 1..Len(reads) :
        (reads[a].what = what /\ reads[b].what = what /\ reads[a].id = reads[b].id)
            => a = b

\* C25 - idempotent reads are cached within a run: the run looks no user up
\* twice and fetches no parent ticket twice, a lookup or fetch that failed
\* included.
C25_ReadsCached ==
    /\ ReadOnce("user")
    /\ ReadOnce("ticket")

\* ------------------------------------------------------------------------
\* Properties of the user merge pass
\* ------------------------------------------------------------------------

\* C17 - action cap at the action boundary: when a run has ended, its
\* result tells of every planned merge whether it was done, failed or was
\* left undone, so every pair of the plan has a line in the log of the run.
C17_CapReportsUndone ==
    user_pc = "done" =>
        \A n \in 1..Len(planned) :
            \E l \in 1..Len(merge_log) :
                merge_log[l].src = planned[n].src /\ merge_log[l].tgt = planned[n].tgt

\* The candidates pick_survivor was called on, by position.
CandCount(m) == DictGet(requester_counts, candidates[m].id)
CandParses(m) == IsoParses(ReplaceZ(candidates[m].created_at))
CandInstant(m) == IsoInstant(ReplaceZ(candidates[m].created_at))

\* Those with the highest count; of them the verified ones if there are
\* any; of them those created first, among the ones whose created_at
\* parses, if there are any.
TopCount ==
    {m \in 1..Len(candidates) : \A o \in 1..Len(candidates) : CandCount(o) <= CandCount(m)}
TopVerified ==
    IF \E m \in TopCount : candidates[m].verified
    THEN {m \in TopCount : candidates[m].verified} ELSE TopCount
TopOldest ==
    IF \E m \in TopVerified : CandParses(m)
    THEN {m \in TopVerified :
             CandParses(m)
             /\ \A o \in TopVerified : CandParses(o) => CandInstant(m) <= CandInstant(o)}
    ELSE TopVerified

\* C18 - user survivor tie-break: the id pick_survivor returns is the id of
\* a candidate with the highest count of solved tickets; among those, of a
\* verified one if there is any; among those, of one created earliest, a
\* candidate whose created_at is missing or does not parse coming last.
C18_SurvivorTieBreak ==
    picked # 0 => \E m \in TopOldest : candidates[m].id = picked

\* Three candidates with the same count, all verified: the first has a
\* created_at that does not parse, the third was created before the second
\* and is the one returned.
C18_Witness ==
    /\ Len(candidates) = 3
    /\ picked = 3
    /\ \A m \in 1..3 : CandCount(m) = 2 /\ candidates[m].verified
    /\ ~CandParses(1)
    /\ CandParses(2) /\ CandParses(3) /\ CandInstant(3) < CandInstant(2)

\* C20 - a failed precondition ends the run before any write: with an
\* empty batch the propagation pass goes from the fetch to its end and
\* issues no write; with no requester among the solved tickets of the
\* window the user merge pass plans and merges nothing; and when the
\* preflight fails the user merge pass is left at once, no merge sent.
C20_AbortBeforeWrite ==
    /\ (prop_pc # "off" /\ view_tickets = <<>>)
          => (writes = <<>> /\ prop_pc \in {"fetched", "done"}
              /\ \A id \in PropIds : notes[id] = <<>> /\ field[id] = field0[id])
    /\ (user_pc # "off" /\ \A n \in 1..Len(solved) : solved[n] = 0)
          => (puts = <<>> /\ merge_log = <<>>
              /\ user_pc \in {"preflight", "search", "done", "exit"})
    /\ preflight_ok = "failed"
          => (puts = <<>> /\ merge_log = <<>> /\ user_pc = "exit")

\* The preflight failed and the run was left, although the first requester
\* of the window has a duplicate and merges are not dry.
C20_Witness ==
    /\ preflight_ok = "failed"
    /\ user_pc = "exit"
    /\ ~DRY_RUN
    /\ solved # <<>>
    /\ solved[1] # 0
    /\ Cardinality(ClusterOf(solved[1], TRUE)) > 1
    /\ IsEndUser(users[solved[1]])

\* C29 - the user merge plan has no chains or cycles: no user that a planned
\* merge keeps is merged away by another planned merge of the run.
C29_NoChains ==
    \A a, b \in 1..Len(planned) : planned[a].tgt # planned[b].src

\* C30 - each user is merged away at most once: once the plan is
\* de-duplicated, no two planned merges take the same user into different
\* users.
C30_OneTargetPerSource ==
    user_pc \in {"execute", "done", "exit"} =>
        \A a, b \in 1..Len(planned) :
            planned[a].src = planned[b].src => planned[a].tgt = planned[b].tgt

\* The emails and the phones a user has on the platform, the primary one
\* and those of the identities, normalized; None and "" leave nothing.
EmailsOnPlatform(u) ==
    {norm_email(e) :
        e \in {u.email} \cup {u.identities[n].value :
                                 n \in {m \in 1..Len(u.identities) :
                                           u.identities[m].type = "email"}}}
        \ {<<>>}
PhonesOnPlatform(u) ==
    {norm_phone(p) :
        p \in {u.phone} \cup {u.identities[n].value :
                                 n \in {m \in 1..Len(u.identities) :
                                           u.identities[m].type \in {"phone_number", "phone"}}}}
        \ {<<>>}

\* The primary email or the primary phone of the member is one of the
\* requester's.
SharesIdentifier(member, requester) ==
    \/ norm_email(member.email) \in EmailsOnPlatform(requester)
    \/ norm_phone(member.phone) \in PhonesOnPlatform(requester)

HasEndUserRole(id) == LowerStr(users[id].role) = "end-user"

\* C31 - only end-users are merged: the source and the target of every
\* planned merge have the role end-user, and the two come from the cluster
\* of one requester gone through: each of them is that requester or has a
\* normalized primary email or phone that is one of the requester's
\* normalized emails or phones, primary or identity.
C31_OnlyEndUsers ==
    \A n \in 1..Len(planned) :
        /\ HasEndUserRole(planned[n].src)
        /\ HasEndUserRole(planned[n].tgt)
        /\ \E rid \in visited :
              /\ HasEndUserRole(rid)
              /\ \A m \in {planned[n].src, planned[n].tgt} \ {rid} :
                    SharesIdentifier(users[m], users[rid])

\* A merge is planned for a requester whose email or phone an agent has
\* too, and the agent is in no planned merge.
C31_Witness ==
    /\ planned # <<>>
    /\ \E a \in UserIds : \E rid \in visited :
          /\ ~HasEndUserRole(a)
          /\ HasEndUserRole(rid)
          /\ SharesIdentifier(users[a], users[rid])
          /\ \E n \in 1..Len(planned) : rid \in {planned[n].src, planned[n].tgt}
          /\ \A n \in 1..Len(planned) : a \notin {planned[n].src, planned[n].tgt}

\* The number of planned merges within the cap.
WithinCap == IF Len(planned) < MAX_MERGES THEN Len(planned) ELSE MAX_MERGES

\* The calls of merge_user: each is logged in a dry run and sends one PUT
\* otherwise.
MergeUserCalls == IF DRY_RUN THEN Len(merge_log) ELSE Len(puts)

CallsWithinCap ==
    /\ merged_users <= MergeUserCalls
    /\ max_merges >= 0 => MergeUserCalls <= max_merges

\* C33 - the cap bounds the merges of a run: whatever MAX_MERGES is, the
\* number of calls of merge_user, successful or failed, never exceeds it
\* (a cap below zero allowing none), and the merged counter never exceeds
\* the number of calls.
C33_MergeCapBound ==
    /\ merged_users <= MergeUserCalls
    /\ MergeUserCalls <= IF max_merges < 0 THEN 0 ELSE max_merges

\* ------------------------------------------------------------------------
\* Properties of the note sync
\* ------------------------------------------------------------------------

\* The positions of the subject where a "#" is followed by a digit, the
\* first of them, and the digits that follow it.
HashAt(subject) ==
    {n \in 1..Len(subject) - 1 : subject[n] = "#" /\ subject[n + 1] \in DigitChars}
FirstHash(subject) ==
    CHOOSE n \in HashAt(subject) : \A m \in HashAt(subject) : n <= m
SubjectDigits(subject) ==
    LET from == FirstHash(subject) + 1
        to == CHOOSE e \in from..Len(subject) :
                  /\ \A x \in from..e : subject[x] \in DigitChars
                  /\ e = Len(subject) \/ subject[e + 1] \notin DigitChars
    IN  SubSeq(subject, from, to)

\* sync_note got the ticket; it has returned or was left by an exception.
Fetched == sync_pc \notin {"off", "start"} /\ ~(sync_pc = "raised" /\ sync_ticket = NoTicket)
SyncEnded == Fetched /\ sync_pc \in {"done", "raised"}

\* The note writes sent to the order platform, and its writes of any kind
\* (a note, a file).
NoteWrites == SelectSeq(http, LAMBDA q : q.method = "PUT" /\ q.resource = "order")
OrderPlatformWrites ==
    SelectSeq(http, LAMBDA q : q.service = "shopify" /\ q.resource \in {"order", "files"})

NameResolved == \E n \in 1..Len(out) : out[n].msg = "Resolved order name"

NoteOfSubject(q) ==
    /\ q.target = SubjectDigits(sync_ticket.subject)
    /\ StartsWith(q.body, NoteHead(sync_ticket_id) \o sync_ticket.description)

\* A run that has ended for a subject with "#" and digits sent at most one
\* note write, to the order with those digits and beginning with the ticket
\* line and the description; it sent exactly one when attachment upload is
\* off; and a run that sent none has attachment upload on and was left by
\* the exception of the comment fetch, of the download or of the upload.
NotedUnlessUploadFailed ==
    (SyncEnded /\ HashAt(sync_ticket.subject) # {})
        => /\ Len(NoteWrites) <= 1
           /\ NoteWrites # <<>> => NoteOfSubject(NoteWrites[1])
           /\ ~_should_upload_attachments => Len(NoteWrites) = 1
           /\ NoteWrites = <<>> =>
                  /\ _should_upload_attachments
                  /\ sync_pc = "raised"
                  /\ http[Len(http)].resource \in {"comments", "attachment", "files"}

\* C27 - sync_note with an order in the subject: whenever the subject of the
\* ticket has "#" followed by digits, a run of sync_note that has ended sent
\* exactly one note write, to the order with those digits, and the note
\* begins with "Zendesk Ticket #", the numeric ticket id, ": " and the
\* description.
C27_SubjectOrderNoted ==
    (SyncEnded /\ HashAt(sync_ticket.subject) # {})
        => /\ Len(NoteWrites) = 1
           /\ NoteOfSubject(NoteWrites[1])

\* One of the five variables is unset or empty.
ConfigIncomplete ==
    \E name \in {"EMAIL", "API_TOKEN", "SUBDOMAIN", "SHOPIFY_TOKEN", "SHOPIFY_DOMAIN"} :
        ~env[name].set \/ env[name].value = <<>>

\* C28 - missing configuration is an error before any request: with one of
\* EMAIL, API_TOKEN, SUBDOMAIN, SHOPIFY_TOKEN, SHOPIFY_DOMAIN unset or
\* empty, every call of a function that reads the configuration raised
\* RuntimeError and no HTTP request was sent.
C28_MissingConfigNoRequest ==
    ConfigIncomplete
        => /\ http = <<>>
           /\ \A n \in 1..Len(calls) : calls[n].raised = "RuntimeError"

\* Two functions were called with every variable set but for empty ones:
\* both raised, nothing was sent.
C28_Witness ==
    /\ \A name \in ConfigNames : env[name].set
    /\ ConfigIncomplete
    /\ Len(calls) >= 2
    /\ calls[1].op # calls[2].op
    /\ http = <<>>

\* The queries by order name sent to the order platform.
NameQueries == SelectSeq(http, LAMBDA q : q.resource = "graphql")

AsksRetry(n) == received[n].status \in {429, 500, 502, 503, 504}

\* At most RETRY_MAX requests; a further request only after a retryable
\* response; a response that is not retryable is the last and is returned.
BoundedAndSelective ==
    retry_pc # "off" =>
        /\ Len(received) <= RETRY_MAX
        /\ \A n \in 1..Len(received) - 1 : AsksRetry(n)
        /\ \A n \in 1..Len(received) :
              ~AsksRetry(n) => (retry_pc = "returned" /\ returned = n)

\* After RETRY_MAX retryable responses the last one is returned, unless a
\* Retry-After below zero made sleep raise.
LastReturnedUnlessSleepRaised ==
    (retry_pc # "off" /\ Len(received) = RETRY_MAX
        /\ \A n \in 1..RETRY_MAX : AsksRetry(n))
      => \/ retry_pc = "returned" /\ returned = RETRY_MAX
         \/ retry_pc = "raised" /\ received[RETRY_MAX].retry_after = <<"-", "1">>

\* C34 - _request_with_retries is bounded and selective: it sends at most
\* RETRY_MAX requests, sends a further request only after a response with
\* status 429, 500, 502, 503 or 504, returns at once the first response
\* with any other status, and after RETRY_MAX retryable responses returns
\* the last response.
C34_BoundedSelectiveRetries ==
    /\ BoundedAndSelective
    /\ (retry_pc # "off" /\ Len(received) = RETRY_MAX
           /\ \A n \in 1..RETRY_MAX : AsksRetry(n))
          => (retry_pc = "returned" /\ returned = RETRY_MAX)

\* The attempts are at most MAX_RETRIES and a 200 returns the success value
\* at once.
ZdBounded ==
    zd_pc # "off" =>
        /\ Len(zd_received) <= MAX_RETRIES
        /\ \A n \in 1..Len(zd_received) :
              (~zd_received[n].exception /\ zd_received[n].status = 200)
                  => /\ n = Len(zd_received)
                     /\ zd_pc = "returned"
                     /\ zd_result = IF zd_method = "GET" THEN "json" ELSE "True"

\* No attempt gave 200 and none is left.
ZdExhausted ==
    /\ Len(zd_received) = MAX_RETRIES
    /\ \A n \in 1..MAX_RETRIES : zd_received[n].exception \/ zd_received[n].status # 200

\* The function is left by an exception only on a 429 whose Retry-After is
\* no whole number or is below zero, and returns the failure value when the
\* attempts are used up.
ZdFailsUnlessHeaderRaised ==
    /\ zd_pc = "raised" =>
          zd_received[Len(zd_received)].retry_after \in {<<"-", "1">>, <<"s", "o", "o", "n">>}
    /\ (zd_pc # "raised" /\ ZdExhausted)
          => (zd_pc = "returned"
              /\ zd_result = IF zd_method = "GET" THEN "None" ELSE "False")

\* C35 - zendesk_get_with_retry and zendesk_put_with_retry always end with
\* a value: whatever the outcomes of the HTTP calls (200, 429, another
\* status, a request exception), at most MAX_RETRIES attempts are made, a
\* 200 returns the success value at once, and otherwise the failure value
\* is returned, also when every attempt is rate-limited; no exception
\* leaves the function.
C35_RetryAlwaysReturns ==
    /\ ZdBounded
    /\ zd_pc # "raised"
    /\ ZdExhausted
          => (zd_pc = "returned"
              /\ zd_result = IF zd_method = "GET" THEN "None" ELSE "False")

\* The PUT requests of the order-history note.
Writes == SelectSeq(oh_requests, LAMBDA r : r.method = "PUT")

\* The variable is set to something other than blanks.
IsSet(name) ==
    /\ oh_env[name].set
    /\ \E n \in 1..Len(oh_env[name].value) : oh_env[name].value[n] \notin Whitespace

\* The word "info", in any case, stands at body[at]: no word character
\* touches it on either side.
InfoAt(body, at) ==
    /\ at + 3 <= Len(body)
    /\ body[at] \in {"i", "I"} /\ body[at + 1] \in {"n", "N"}
    /\ body[at + 2] \in {"f", "F"} /\ body[at + 3] \in {"o", "O"}
    /\ at > 1 => body[at - 1] \notin WordChars
    /\ at + 4 <= Len(body) => body[at + 4] \notin WordChars

\* The ticket has a non-public comment with the word "info".
HasInfoNote ==
    \E n \in 1..Len(oh_comments) :
        /\ ~oh_comments[n].public /\ ~oh_comments[n].body_null
        /\ \E at \in 1..Len(oh_comments[n].body) : InfoAt(oh_comments[n].body, at)

\* A GET of the run failed.
FetchFailed ==
    \E n \in 1..Len(oh_requests) :
        oh_requests[n].method = "GET" /\ ~oh_requests[n].ok

\* C37: the order-history script writes to the ticket at most once in a run,
\* and only when the five credentials and TICKET_ID are set, the channel of
\* the ticket is web, email or whatsapp and the ticket has a non-public
\* comment with the word "info"; when the fetch of the ticket, the comments,
\* the requester or the orders fails the run ends with exit status 1 and
\* nothing is written.
C37_NoteGate ==
    /\ Len(Writes) <= 1
    /\ Writes # <<>> =>
        /\ \A name \in EnvNames : IsSet(name)
        /\ oh_ticket.via = "dict"
        /\ oh_ticket.channel \in {"web", "email", "whatsapp"}
        /\ HasInfoNote
    /\ FetchFailed => oh_pc = "exit" /\ oh_exit = 1 /\ Writes = <<>>

\* The note was written after two pages of orders and the run ended well.
C37_Witness ==
    /\ oh_pc = "exit" /\ oh_exit = 0
    /\ Len(Writes) = 1 /\ oh_pages = MaxOrderPages
    /\ oh_note # <<>> /\ oh_note[1].number_of_orders > 0

\* A fetch failed and the run ended with status 1 before any write.
FetchFailureEnds ==
    /\ FetchFailed /\ oh_exit = 1 /\ Writes = <<>>
    /\ oh_requests[Len(oh_requests)].resource = "orders"

\* ------------------------------------------------------------------------
\* Properties of the fetch of the view
\* ------------------------------------------------------------------------

\* The tickets of the first n pages of the view, page after page.
RECURSIVE TicketsOfPages(_)
TicketsOfPages(n) ==
    IF n = 0 THEN <<>> ELSE TicketsOfPages(n - 1) \o view_pages[n].tickets

\* The pages that gave their JSON.
PagesRead == Len(SelectSeq(view_data, LAMBDA d : d.data = "json"))

\* The fetch of a page failed after its retries.
PageFailed == \E n \in 1..Len(view_data) : view_data[n].data = "None"

\* get_tickets_from_view has returned.
ViewReturned == prop_pc \notin {"fetching", "raised"}

\* Every page was read, the last one naming no next page.
ReadToTheEnd ==
    /\ PagesRead = Len(view_pages)
    /\ Len(view_data) = Len(view_pages)
    /\ view_pages[PagesRead].next_page = 0

\* The loop stopped at the page that failed, the pages before it read.
StoppedAtFailure ==
    /\ Len(view_data) = PagesRead + 1
    /\ view_data[Len(view_data)].data = "None"
    /\ \A n \in 1..PagesRead : view_data[n] = [page |-> n, data |-> "json"]

\* The failed reads of tickets and the failed writes of the run.
TicketFailures ==
    Len(SelectSeq(reads, LAMBDA r : r.what = "ticket" /\ r.outcome # "ok"))
        + Len(SelectSeq(writes, LAMBDA w : ~w.ok))

\* C38: get_tickets_from_view follows next_page until a page names none and
\* returns the tickets of all pages in order; when the fetch of a page fails
\* after its retries it stops and returns the tickets of the pages fetched
\* before, and the pass goes on with that batch: the run does not end on an
\* error, every error it counts is the failure of a read or write of a
\* ticket, and when it ends after the loop over the batch every ticket of
\* the batch went through the loop.
C38_ViewPagination ==
    /\ ViewReturned =>
        /\ view_tickets = TicketsOfPages(PagesRead)
        /\ IF PageFailed THEN StoppedAtFailure ELSE ReadToTheEnd
    /\ PageFailed =>
        /\ prop_pc # "raised"
        /\ error_count <= TicketFailures
        /\ prop_pc = "done" /\ parent_mapping # EmptyDict
               => prop_i > Len(view_tickets)

\* The second page failed; the ticket of the first page was processed and
\* its reason copied, the ticket of the second page never seen.
C38_Witness ==
    /\ prop_pc = "done" /\ PageFailed
    /\ Len(view_pages) = 2 /\ view_pages[2].tickets # <<>>
    /\ Len(view_tickets) = 1 /\ success_count = 1 /\ error_count = 0

\* Two pages with a ticket each were read to the end.
BothPagesRead ==
    /\ ViewReturned /\ ~PageFailed /\ PagesRead = 2
    /\ Len(view_pages[1].tickets) = 1 /\ Len(view_pages[2].tickets) = 1

====
